---------------------------- MODULE Spec2Model ----------------------------
(***************************************************************************)
(* A model of android/utils/timezone.cpp: the zone-name validator, the     *)
(* TimeZone offset engine (the POSIX build, i.e. the #else branches that   *)
(* resolve a zone with zdump and date) and the three entry points          *)
(* timezone_set, android_tzoffset_in_seconds and android_localtime that    *)
(* reach the process-wide instance sAndroidTimeZone.                       *)
(*                                                                         *)
(* C strings are sequences of one-character strings, and NULL a value no   *)
(* string equals.  A time_t is an integer, a struct tm a record with the   *)
(* six fields the code reads.  A member that no constructor or assignment  *)
(* has written yet holds Indeterminate.                                    *)
(***************************************************************************)
EXTENDS Integers, Sequences, FiniteSets, TLC

VARIABLES
    \* class TimeZone, the instance behind sAndroidTimeZone
    constructed,          \* LazyInstance: has the instance been constructed
    mStandardDateUtc,
    mDaylightDateUtc,
    mStandardOffset,
    mDaylightOffset,
    mCurrentYear,
    mAndroidTimeZoneInit,
    mTimeZoneName,
    \* file-level statics
    android_timezone0,
    android_timezone,
    android_timezone_init,
    \* the environment
    clock,                \* the host's wall clock, a time_t
    crashed,              \* an exception left an entry point: the process ended
    platform,             \* the build: "linux" (or FreeBSD), "apple" or "win32"
    \* the last call of an entry point: its arguments, result and trace
    last,
    \* two threads inside the entry points, member access by member access
    writer,               \* the thread in timezone_set
    reader,               \* the thread in android_tzoffset_in_seconds
    \* class UIEventRecorder (ui-event-recorder.h), one instance
    mRecording,
    mContainer

engineVars == <<constructed, mStandardDateUtc, mDaylightDateUtc, mStandardOffset,
                mDaylightOffset, mCurrentYear, mAndroidTimeZoneInit, mTimeZoneName>>
staticVars == <<android_timezone0, android_timezone, android_timezone_init>>
envVars == <<clock, crashed, platform>>
threadVars == <<writer, reader>>

----------------------------------------------------------------------------
(* Bounds *)

\* strings given to the validator have at most MaxLen characters
MaxLen == 5
\* the calendar years of the model are 2024 .. 2024 + YearSpan
YearSpan == 1

Years == 2024 .. (2024 + YearSpan)

\* the null pointer, where a C string is expected: no string has this "character"
NULL == <<"NULL">>
Indeterminate == "indeterminate"

----------------------------------------------------------------------------
(* <time.h>: gmtime, and the calendar arithmetic behind it *)

kSecondsPerDay == 60 * 60 * 24

\* days since 1970-01-01 of the civil date y-m-d (m in 1..12)
DaysFromCivil(y, m, d) ==
    LET yy == IF m <= 2 THEN y - 1 ELSE y
        era == yy \div 400
        yoe == yy - era * 400
        mp == IF m > 2 THEN m - 3 ELSE m + 9
        doy == (153 * mp + 2) \div 5 + d - 1
        doe == yoe * 365 + yoe \div 4 - yoe \div 100 + doy
    IN era * 146097 + doe - 719468

\* F applied to v: the value v, computed once, under the name F gives it
Let(v, F(_)) == F(v)

\* the civil date of a day number, as [y, m, d]
CivilFromDays(z0) ==
    Let(z0 + 719468, LAMBDA z :
    Let(z \div 146097, LAMBDA era :
    Let(z - era * 146097, LAMBDA doe :
    Let((doe - doe \div 1460 + doe \div 36524 - doe \div 146096) \div 365, LAMBDA yoe :
    Let(doe - (365 * yoe + yoe \div 4 - yoe \div 100), LAMBDA doy :
    Let((5 * doy + 2) \div 153, LAMBDA mp :
    Let(IF mp < 10 THEN mp + 3 ELSE mp - 9, LAMBDA m :
        [y |-> yoe + era * 400 + (IF m <= 2 THEN 1 ELSE 0),
         m |-> m,
         d |-> doy - (153 * mp + 2) \div 5 + 1])))))))

\* struct tm* gmtime(const time_t*): the six fields the code reads
gmtime(t) ==
    Let(t % kSecondsPerDay, LAMBDA secs :
    Let(CivilFromDays(t \div kSecondsPerDay), LAMBDA c :
        [tm_year |-> c.y - 1900, tm_mon |-> c.m - 1, tm_mday |-> c.d,
         tm_hour |-> secs \div 3600, tm_min |-> (secs % 3600) \div 60,
         tm_sec |-> secs % 60]))

\* the UTC calendar year of t
YearOf(t) == gmtime(t).tm_year + 1900

\* the time_t of a civil UTC date and time (timegm)
TimeOf(y, m, d, hh, mm, ss) ==
    DaysFromCivil(y, m, d) * kSecondsPerDay + hh * 3600 + mm * 60 + ss

\* 0 = Sunday .. 6 = Saturday
WeekDay(days) == (days + 4) % 7

\* day number of the n-th Sunday (n >= 1) of month m of year y
NthSunday(y, m, n) ==
    Let(DaysFromCivil(y, m, 1), LAMBDA d1 :
        d1 + ((7 - WeekDay(d1)) % 7) + 7 * (n - 1))

\* day number of the last Sunday of a 31-day month m of year y
LastSunday31(y, m) ==
    Let(DaysFromCivil(y, m, 31), LAMBDA dl : dl - WeekDay(dl))

----------------------------------------------------------------------------
(* The zone-name validator *)

\* strchr(s + from - 1, '/'): index of the first '/' at or after from, 0 if none
RECURSIVE strchr_slash(_, _)
strchr_slash(s, from) ==
    IF from > Len(s) THEN 0
    ELSE IF s[from] = "/" THEN from
    ELSE strchr_slash(s, from + 1)

\* static int check_timezone_is_zoneinfo(const char* tz)
check_timezone_is_zoneinfo(tz) ==
    IF tz = NULL THEN 0
    ELSE Let(strchr_slash(tz, 1), LAMBDA slash1 :
         IF slash1 = 0 \/ slash1 = Len(tz) THEN 0
         ELSE Let(strchr_slash(tz, slash1 + 1), LAMBDA slash2 :
              IF slash2 # 0
                 /\ (slash2 = Len(tz) \/ strchr_slash(tz, slash2 + 1) # 0)
              THEN 0
              ELSE 1))

----------------------------------------------------------------------------
(* std::string as a sequence of characters: substr, stoi and decimal output *)

Digits == <<"0", "1", "2", "3", "4", "5", "6", "7", "8", "9">>
IsDigit(c) == \E i \in 1 .. 10 : Digits[i] = c
DigitVal(c) == (CHOOSE i \in 1 .. 10 : Digits[i] = c) - 1
DigitChar(d) == Digits[d + 1]

\* std::string::substr(pos, n): throws std::out_of_range when pos > size()
substr(s, pos, n) ==
    IF pos > Len(s) THEN [threw |-> TRUE, v |-> <<>>]
    ELSE [threw |-> FALSE,
          v |-> SubSeq(s, pos + 1, IF pos + n < Len(s) THEN pos + n ELSE Len(s))]

\* the number of leading digits of s from index i on
RECURSIVE DigitRun(_, _)
DigitRun(s, i) ==
    IF i <= Len(s) /\ IsDigit(s[i]) THEN 1 + DigitRun(s, i + 1) ELSE 0

\* the value of the digits s[i .. j]
RECURSIVE DigitsValue(_, _, _)
DigitsValue(s, i, j) ==
    IF j < i THEN 0 ELSE DigitsValue(s, i, j - 1) * 10 + DigitVal(s[j])

\* std::stoi(s): an optional sign, then the leading digits; throws
\* std::invalid_argument when there is no digit to convert
stoi(s) ==
    Let(IF Len(s) >= 1 /\ s[1] \in {"+", "-"} THEN 2 ELSE 1, LAMBDA from :
    Let(DigitRun(s, from), LAMBDA n :
        IF n = 0 THEN [threw |-> TRUE, v |-> 0]
        ELSE Let(DigitsValue(s, from, from + n - 1), LAMBDA mag :
                 [threw |-> FALSE, v |-> IF s[1] = "-" THEN -mag ELSE mag])))

\* printf("%d") of a natural number
RECURSIVE FmtInt(_)
FmtInt(n) ==
    IF n < 10 THEN <<DigitChar(n)>> ELSE FmtInt(n \div 10) \o <<DigitChar(n % 10)>>

\* printf("%02d") of a number below 100
Fmt2(n) == <<DigitChar(n \div 10), DigitChar(n % 10)>>

----------------------------------------------------------------------------
(* The host: its zoneinfo database, its own zone, and what the zdump and   *)
(* date utilities print from that database                                 *)

kMonthName == <<<<"J", "a", "n">>, <<"F", "e", "b">>, <<"M", "a", "r">>, <<"A", "p", "r">>, <<"M", "a", "y">>, <<"J", "u", "n">>, <<"J", "u", "l">>, <<"A", "u", "g">>, <<"S", "e", "p">>, <<"O", "c", "t">>, <<"N", "o", "v">>, <<"D", "e", "c">>>>
kDayName == <<<<"S", "u", "n">>, <<"M", "o", "n">>, <<"T", "u", "e">>, <<"W", "e", "d">>, <<"T", "h", "u">>, <<"F", "r", "i">>, <<"S", "a", "t">>>>

NewYork == <<"A", "m", "e", "r", "i", "c", "a", "/", "N", "e", "w", "_", "Y", "o", "r", "k">>
Sydney == <<"A", "u", "s", "t", "r", "a", "l", "i", "a", "/", "S", "y", "d", "n", "e", "y">>
Kolkata == <<"A", "s", "i", "a", "/", "K", "o", "l", "k", "a", "t", "a">>
Berlin == <<"E", "u", "r", "o", "p", "e", "/", "B", "e", "r", "l", "i", "n">>
NotAZone == <<"N", "o", "t", "_", "A", "_", "Z", "o", "n", "e">>

\* the zone the host itself is set to: what localtime() converts with
HostZone == Berlin

\* the rule of a zone in year y: whether it has daylight saving and, if so,
\* the year's two transitions and the offset in force from each one on
ZoneRule(zone, y) ==
    CASE zone = NewYork ->
           [known |-> TRUE, dst |-> TRUE,
            first |-> NthSunday(y, 3, 2) * kSecondsPerDay + 7 * 3600, offFirst |-> -14400,
            second |-> NthSunday(y, 11, 1) * kSecondsPerDay + 6 * 3600, offSecond |-> -18000]
      [] zone = Sydney ->
           [known |-> TRUE, dst |-> TRUE,
            first |-> NthSunday(y, 4, 1) * kSecondsPerDay - 8 * 3600, offFirst |-> 36000,
            second |-> NthSunday(y, 10, 1) * kSecondsPerDay - 8 * 3600, offSecond |-> 39600]
      [] zone = Berlin ->
           [known |-> TRUE, dst |-> TRUE,
            first |-> LastSunday31(y, 3) * kSecondsPerDay + 3600, offFirst |-> 7200,
            second |-> LastSunday31(y, 10) * kSecondsPerDay + 3600, offSecond |-> 3600]
      [] zone = Kolkata ->
           [known |-> TRUE, dst |-> FALSE,
            first |-> 0, offFirst |-> 19800, second |-> 0, offSecond |-> 19800]
      [] OTHER ->
           [known |-> FALSE, dst |-> FALSE,
            first |-> 0, offFirst |-> 0, second |-> 0, offSecond |-> 0]

\* the UTC offset the zoneinfo database gives a zone at instant t
ZoneOffsetAt(zone, t) ==
    Let(ZoneRule(zone, gmtime(t).tm_year + 1900), LAMBDA r :
        IF r.dst /\ t >= r.first /\ t < r.second THEN r.offFirst ELSE r.offSecond)

\* whether the zoneinfo database has the zone in daylight time at t: of the
\* two offsets of a zone with daylight saving, the larger is the daylight one
ZoneIsDstAt(zone, t) ==
    Let(ZoneRule(zone, gmtime(t).tm_year + 1900), LAMBDA r :
        /\ r.dst
        /\ IF r.offFirst > r.offSecond
           THEN t >= r.first /\ t < r.second
           ELSE ~(t >= r.first /\ t < r.second))

\* struct tm* localtime(const time_t*) of the host
localtime(t) == gmtime(t + ZoneOffsetAt(HostZone, t))

\* "Sun Mar 13 07:00:00 2016": the five date tokens zdump prints
ZdumpDate(t) ==
    Let(gmtime(t), LAMBDA tm :
        << kDayName[WeekDay(t \div kSecondsPerDay) + 1],
           kMonthName[tm.tm_mon + 1],
           FmtInt(tm.tm_mday),
           Fmt2(tm.tm_hour) \o <<":">> \o Fmt2(tm.tm_min) \o <<":">> \o Fmt2(tm.tm_sec),
           FmtInt(tm.tm_year + 1900) >>)

\* one line of zdump -v, as its whitespace-separated tokens:
\* zone, UTC date, "UT", "=", local date, abbreviation, isdst=N
ZdumpLine(zone, t, off, isdst) ==
    <<zone>> \o ZdumpDate(t) \o << <<"U", "T">>, <<"=">> >> \o ZdumpDate(t + off)
        \o << <<"L", "C", "L">>,
              <<"i", "s", "d", "s", "t", "=">> \o <<DigitChar(IF isdst THEN 1 ELSE 0)>> >>

\* the lines of "zdump -v zone | grep y": four for a zone with daylight saving
\* (the second before and the second of each transition), none otherwise
ZdumpOutput(zone, y) ==
    Let(ZoneRule(zone, y), LAMBDA r :
    Let(r.offFirst > r.offSecond, LAMBDA dstFirst :
        IF ~r.dst THEN <<>>
        ELSE << ZdumpLine(zone, r.first - 1, r.offSecond, ~dstFirst),
                ZdumpLine(zone, r.first, r.offFirst, dstFirst),
                ZdumpLine(zone, r.second - 1, r.offFirst, dstFirst),
                ZdumpLine(zone, r.second, r.offSecond, ~dstFirst) >>))

\* what "TZ=zone date +%z" prints at instant t: the sign, hours and minutes of the
\* zone's offset at t (UTC for a zone the database does not have)
DateOutput(zone, t) ==
    Let(ZoneOffsetAt(zone, t), LAMBDA off :
    Let(IF off < 0 THEN -off ELSE off, LAMBDA mag :
        <<IF off < 0 THEN "-" ELSE "+">>
            \o Fmt2(mag \div 3600) \o Fmt2((mag % 3600) \div 60)))

----------------------------------------------------------------------------
(* class TimeZone: the pure helpers *)

\* a utcCompare that stops at the minutes
utcCompare_noSeconds(utc1, utc2) ==
    IF utc1.tm_year > utc2.tm_year THEN 1
    ELSE IF utc1.tm_year < utc2.tm_year THEN -1
    ELSE IF utc1.tm_mon > utc2.tm_mon THEN 1
    ELSE IF utc1.tm_mon < utc2.tm_mon THEN -1
    ELSE IF utc1.tm_mday > utc2.tm_mday THEN 1
    ELSE IF utc1.tm_mday < utc2.tm_mday THEN -1
    ELSE IF utc1.tm_hour > utc2.tm_hour THEN 1
    ELSE IF utc1.tm_hour < utc2.tm_hour THEN -1
    ELSE IF utc1.tm_min > utc2.tm_min THEN 1
    ELSE IF utc1.tm_min < utc2.tm_min THEN -1
    ELSE 0

\* int TimeZone::utcCompare(const struct tm&, const struct tm&)
utcCompare(utc1, utc2) ==
    IF utc1.tm_year > utc2.tm_year THEN 1
    ELSE IF utc1.tm_year < utc2.tm_year THEN -1
    ELSE IF utc1.tm_mon > utc2.tm_mon THEN 1
    ELSE IF utc1.tm_mon < utc2.tm_mon THEN -1
    ELSE IF utc1.tm_mday > utc2.tm_mday THEN 1
    ELSE IF utc1.tm_mday < utc2.tm_mday THEN -1
    ELSE IF utc1.tm_hour > utc2.tm_hour THEN 1
    ELSE IF utc1.tm_hour < utc2.tm_hour THEN -1
    ELSE IF utc1.tm_min > utc2.tm_min THEN 1
    ELSE IF utc1.tm_min < utc2.tm_min THEN -1
    ELSE IF utc1.tm_sec > utc2.tm_sec THEN 1
    ELSE IF utc1.tm_sec < utc2.tm_sec THEN -1
    ELSE 0

\* diffTime of the times of day alone, as if both dates were the same day
diffTime_sameDay(end, beginning) ==
    (end.tm_sec + 60 * (end.tm_min + 60 * end.tm_hour))
        - (beginning.tm_sec + 60 * (beginning.tm_min + 60 * beginning.tm_hour))

\* long TimeZone::diffTime(const struct tm& end, const struct tm& beginning)
diffTime(end, beginning) ==
    LET endInSecs == end.tm_sec + 60 * (end.tm_min + 60 * end.tm_hour)
        beginningInSecs ==
            beginning.tm_sec + 60 * (beginning.tm_min + 60 * beginning.tm_hour)
        endAdd ==
            IF end.tm_year > beginning.tm_year THEN kSecondsPerDay
            ELSE IF end.tm_year < beginning.tm_year THEN 0
            ELSE IF end.tm_mon > beginning.tm_mon THEN kSecondsPerDay
            ELSE IF end.tm_mon < beginning.tm_mon THEN 0
            ELSE kSecondsPerDay * end.tm_mday
        beginningAdd ==
            IF end.tm_year > beginning.tm_year THEN 0
            ELSE IF end.tm_year < beginning.tm_year THEN kSecondsPerDay
            ELSE IF end.tm_mon > beginning.tm_mon THEN 0
            ELSE IF end.tm_mon < beginning.tm_mon THEN kSecondsPerDay
            ELSE kSecondsPerDay * beginning.tm_mday
    IN (endInSecs + endAdd) - (beginningInSecs + beginningAdd)

\* the index i in 0 .. 11 of the first kMonthName[i] equal to the token from
\* i on, -1 if none: the loop over kMonthName
RECURSIVE MonthIndex(_, _)
MonthIndex(token, i) ==
    IF i >= 12 THEN -1
    ELSE IF kMonthName[i + 1] = token THEN i
    ELSE MonthIndex(token, i + 1)

\* int TimeZone::parseZdumpDate(const std::vector<std::string>& tokens, struct tm* date)
\* ret is the value returned, date the struct tm as the function leaves it (its
\* fields are assigned one by one), threw whether std::stoi or substr threw
parseZdumpDate(tokens, date) ==
    LET done(r, d) == [ret |-> r, date |-> d, threw |-> FALSE]
        thrown(d) == [ret |-> -1, date |-> d, threw |-> TRUE]
    IN
    IF Len(tokens) < 4 THEN done(-1, date)
    ELSE
      Let(MonthIndex(tokens[1], 0), LAMBDA monIdx :
      IF monIdx = -1 THEN done(-1, date)
      ELSE
      Let([date EXCEPT !.tm_mon = monIdx], LAMBDA d1 :
      Let(stoi(tokens[2]), LAMBDA mday :
      IF mday.threw THEN thrown(d1)
      ELSE
      Let([d1 EXCEPT !.tm_mday = mday.v], LAMBDA d2 :
      Let(substr(tokens[3], 0, 2), LAMBDA hh :
      Let(stoi(hh.v), LAMBDA hour :
      IF hh.threw \/ hour.threw THEN thrown(d2)
      ELSE
      Let([d2 EXCEPT !.tm_hour = hour.v], LAMBDA d3 :
      Let(substr(tokens[3], 3, 2), LAMBDA mm :
      Let(stoi(mm.v), LAMBDA min :
      IF mm.threw \/ min.threw THEN thrown(d3)
      ELSE
      Let([d3 EXCEPT !.tm_min = min.v], LAMBDA d4 :
      Let(substr(tokens[3], 6, 2), LAMBDA ss :
      Let(stoi(ss.v), LAMBDA sec :
      IF ss.threw \/ sec.threw THEN thrown(d4)
      ELSE
      Let([d4 EXCEPT !.tm_sec = sec.v], LAMBDA d5 :
      Let(stoi(tokens[4]), LAMBDA year :
      IF year.threw THEN thrown(d5)
      ELSE done(0, [d5 EXCEPT !.tm_year = year.v - 1900])))))))))))))))

----------------------------------------------------------------------------
(* The collaborators: tempfile_create and System::runCommand.  A run is     *)
(* [temp, ran, exitCode, lines]: whether a temporary file could be created, *)
(* whether the command ran to completion within the timeout, its exit code  *)
(* and the lines found in the output file.                                  *)

\* an unrecognisable token
Junk == <<"?", "?">>

\* line with its k-th token replaced
WithToken(line, k, token) == [line EXCEPT ![k] = token]

\* what can come of running "zdump -v zone | grep year"
ZdumpModes == {"ok", "notemp", "notrun", "truncated", "badmonth2", "badday"}

\* the run of "zdump -v zone | grep year" in each mode.  In mode "ok" the
\* pipeline exits with grep's status: 1 when no line matched.  The command line
\* is formatted with the std::string mTimeZoneName given to a variadic %s: a
\* build in which that prints anything but the name is a run in which zdump
\* finds no zone, the run of mode "notrun" as far as the caller can tell.
RunZdump(zone, year, mode) ==
    Let(ZdumpOutput(zone, year), LAMBDA out :
    Let([temp |-> TRUE, ran |-> TRUE,
         exitCode |-> IF out = <<>> THEN 1 ELSE 0, lines |-> out], LAMBDA nominal :
        CASE mode = "ok" -> nominal
          [] mode = "notemp" -> [nominal EXCEPT !.temp = FALSE]
          [] mode = "notrun" -> [nominal EXCEPT !.ran = FALSE, !.lines = <<>>]
          [] mode = "truncated" ->
               [nominal EXCEPT !.lines = SubSeq(out, 1, IF Len(out) < 2 THEN Len(out) ELSE 2)]
          [] mode = "badmonth2" ->
               [nominal EXCEPT !.lines =
                   IF out = <<>> THEN out
                   ELSE [out EXCEPT ![4] = WithToken(out[4], 3, Junk)]]
          [] mode = "badday" ->
               [nominal EXCEPT !.lines =
                   IF out = <<>> THEN out
                   ELSE [out EXCEPT ![2] = WithToken(out[2], 4, Junk)]]))

\* what can come of running "TZ=zone date +%z"
DateModes == {"ok", "notemp", "exit1", "empty"}

\* the run of "TZ=zone date +%z" at wall-clock time now in each mode
RunDate(zone, now, mode) ==
    LET nominal == [temp |-> TRUE, ran |-> TRUE, exitCode |-> 0,
                    lines |-> <<DateOutput(zone, now)>>]
    IN CASE mode = "ok" -> nominal
         [] mode = "notemp" -> [nominal EXCEPT !.temp = FALSE]
         [] mode = "exit1" -> [nominal EXCEPT !.exitCode = 1]
         [] mode = "empty" -> [nominal EXCEPT !.lines = <<>>]

----------------------------------------------------------------------------
(* class TimeZone: an instance is a record of its members *)

\* a struct tm no field of which was ever assigned
IndeterminateTm ==
    [tm_year |-> Indeterminate, tm_mon |-> Indeterminate, tm_mday |-> Indeterminate,
     tm_hour |-> Indeterminate, tm_min |-> Indeterminate, tm_sec |-> Indeterminate]

\* TimeZone::TimeZone(), run at wall-clock time now
TimeZone(now) ==
    [mStandardDateUtc |-> IndeterminateTm,
     mDaylightDateUtc |-> IndeterminateTm,
     mStandardOffset |-> Indeterminate,
     mDaylightOffset |-> Indeterminate,
     mCurrentYear |-> gmtime(now).tm_year + 1900,
     mAndroidTimeZoneInit |-> 0,
     mTimeZoneName |-> <<>>]

\* setAndroidTimeZoneUsingZdump taking a run that did not leave four lines
\* for a success, and one that did for a failure
setAndroidTimeZoneUsingZdump_anyLineCount(self, run) ==
    IF Len(run.lines) # 4 THEN [self |-> self, ret |-> 0, threw |-> FALSE]
    ELSE [self |-> self, ret |-> -1, threw |-> FALSE]

\* setAndroidTimeZoneUsingZdump taking the standard offset from the 2nd line
\* and the daylight offset from the 4th
setAndroidTimeZoneUsingZdump_offsetsSwapped(self, run) ==
    LET fail(s) == [self |-> s, ret |-> -1, threw |-> FALSE]
        throw(s) == [self |-> s, ret |-> -1, threw |-> TRUE]
    IN
    IF ~run.temp THEN fail(self)
    ELSE IF ~(run.ran /\ run.exitCode = 0) THEN fail(self)
    ELSE IF Len(run.lines) # 4 THEN fail(self)
    ELSE
      Let(parseZdumpDate(SubSeq(run.lines[2], 3, 6), self.mStandardDateUtc), LAMBDA utc1 :
      Let([self EXCEPT !.mStandardDateUtc = utc1.date], LAMBDA self1 :
      IF utc1.threw THEN throw(self1)
      ELSE IF utc1.ret # 0 THEN fail(self1)
      ELSE
      Let(parseZdumpDate(SubSeq(run.lines[2], 10, 13), IndeterminateTm), LAMBDA local1 :
      IF local1.threw THEN throw(self1)
      ELSE IF local1.ret # 0 THEN fail(self1)
      ELSE
      Let(diffTime(local1.date, self1.mStandardDateUtc), LAMBDA utcOffsetDST :
      Let(parseZdumpDate(SubSeq(run.lines[4], 3, 6), self1.mDaylightDateUtc), LAMBDA utc2 :
      Let([self1 EXCEPT !.mDaylightDateUtc = utc2.date], LAMBDA self2 :
      IF utc2.threw THEN throw(self2)
      ELSE IF utc2.ret # 0 THEN fail(self2)
      ELSE
      Let(parseZdumpDate(SubSeq(run.lines[4], 10, 13), IndeterminateTm), LAMBDA local2 :
      IF local2.threw THEN throw(self2)
      ELSE IF local2.ret # 0 THEN fail(self2)
      ELSE
      Let(diffTime(local2.date, self2.mDaylightDateUtc), LAMBDA utcOffsetStandard :
          [self |-> [self2 EXCEPT !.mStandardOffset = utcOffsetDST,
                                  !.mDaylightOffset = utcOffsetStandard - utcOffsetDST],
           ret |-> 0, threw |-> FALSE]))))))))

\* int TimeZone::setAndroidTimeZoneUsingZdump(), given the run of the command.
\* Every line of a run carries the 13 tokens the function indexes.
\* self is the instance afterwards, ret the value returned, threw whether an
\* exception left the function.
setAndroidTimeZoneUsingZdump(self, run) ==
    LET fail(s) == [self |-> s, ret |-> -1, threw |-> FALSE]
        throw(s) == [self |-> s, ret |-> -1, threw |-> TRUE]
    IN
    IF ~run.temp THEN fail(self)
    ELSE IF ~(run.ran /\ run.exitCode = 0) THEN fail(self)
    ELSE IF Len(run.lines) # 4 THEN fail(self)
    ELSE
      \* i = 1: the 2nd rule
      Let(parseZdumpDate(SubSeq(run.lines[2], 3, 6), self.mStandardDateUtc), LAMBDA utc1 :
      Let([self EXCEPT !.mStandardDateUtc = utc1.date], LAMBDA self1 :
      IF utc1.threw THEN throw(self1)
      ELSE IF utc1.ret # 0 THEN fail(self1)
      ELSE
      Let(parseZdumpDate(SubSeq(run.lines[2], 10, 13), IndeterminateTm), LAMBDA local1 :
      IF local1.threw THEN throw(self1)
      ELSE IF local1.ret # 0 THEN fail(self1)
      ELSE
      Let(diffTime(local1.date, self1.mStandardDateUtc), LAMBDA utcOffsetDST :
      \* i = 3: the 4th rule
      Let(parseZdumpDate(SubSeq(run.lines[4], 3, 6), self1.mDaylightDateUtc), LAMBDA utc2 :
      Let([self1 EXCEPT !.mDaylightDateUtc = utc2.date], LAMBDA self2 :
      IF utc2.threw THEN throw(self2)
      ELSE IF utc2.ret # 0 THEN fail(self2)
      ELSE
      Let(parseZdumpDate(SubSeq(run.lines[4], 10, 13), IndeterminateTm), LAMBDA local2 :
      IF local2.threw THEN throw(self2)
      ELSE IF local2.ret # 0 THEN fail(self2)
      ELSE
      Let(diffTime(local2.date, self2.mDaylightDateUtc), LAMBDA utcOffsetStandard :
          [self |-> [self2 EXCEPT !.mStandardOffset = utcOffsetStandard,
                                  !.mDaylightOffset = utcOffsetDST - utcOffsetStandard],
           ret |-> 0, threw |-> FALSE]))))))))

\* setAndroidTimeZoneUsingDate taking every offset for a positive one
setAndroidTimeZoneUsingDate_unsigned(self, run) ==
    IF ~run.temp THEN [self |-> self, ret |-> -1, threw |-> FALSE]
    ELSE IF ~(run.ran /\ run.exitCode = 0) THEN [self |-> self, ret |-> -1, threw |-> FALSE]
    ELSE
      Let(IF run.lines = <<>> THEN <<>> ELSE run.lines[1], LAMBDA tzdiff :
      Let(1, LAMBDA sign :
      Let(substr(tzdiff, 1, 2), LAMBDA hh :
      Let(stoi(hh.v), LAMBDA hours :
      IF hh.threw \/ hours.threw THEN [self |-> self, ret |-> -1, threw |-> TRUE]
      ELSE
      Let(substr(tzdiff, 3, 2), LAMBDA mm :
      Let(stoi(mm.v), LAMBDA mins :
      IF mm.threw \/ mins.threw THEN [self |-> self, ret |-> -1, threw |-> TRUE]
      ELSE [self |-> [self EXCEPT !.mStandardOffset = sign * (60 * (hours.v * 60 + mins.v)),
                                  !.mDaylightOffset = 0],
            ret |-> 0, threw |-> FALSE]))))))

\* int TimeZone::setAndroidTimeZoneUsingDate(), given the run of the command
setAndroidTimeZoneUsingDate(self, run) ==
    IF ~run.temp THEN [self |-> self, ret |-> -1, threw |-> FALSE]
    ELSE IF ~(run.ran /\ run.exitCode = 0) THEN [self |-> self, ret |-> -1, threw |-> FALSE]
    ELSE
      Let(IF run.lines = <<>> THEN <<>> ELSE run.lines[1], LAMBDA tzdiff :
      Let(IF Len(tzdiff) >= 1 /\ tzdiff[1] = "+" THEN 1 ELSE -1, LAMBDA sign :
      Let(substr(tzdiff, 1, 2), LAMBDA hh :
      Let(stoi(hh.v), LAMBDA hours :
      IF hh.threw \/ hours.threw THEN [self |-> self, ret |-> -1, threw |-> TRUE]
      ELSE
      Let(substr(tzdiff, 3, 2), LAMBDA mm :
      Let(stoi(mm.v), LAMBDA mins :
      IF mm.threw \/ mins.threw THEN [self |-> self, ret |-> -1, threw |-> TRUE]
      ELSE [self |-> [self EXCEPT !.mStandardOffset = sign * (60 * (hours.v * 60 + mins.v)),
                                  !.mDaylightOffset = 0],
            ret |-> 0, threw |-> FALSE]))))))

\* androidTimeZoneSet without its "mAndroidTimeZoneInit = 0"
androidTimeZoneSet_keepsInit(self, tzname, now, zmode, dmode) ==
    Let([self EXCEPT !.mTimeZoneName = tzname], LAMBDA s0 :
    Let(setAndroidTimeZoneUsingZdump(
            s0, RunZdump(s0.mTimeZoneName, s0.mCurrentYear, zmode)), LAMBDA z :
    Let([util |-> "zdump", zone |-> tzname, year |-> self.mCurrentYear], LAMBDA zc :
    Let([util |-> "date", zone |-> tzname, year |-> 0], LAMBDA dc :
    IF z.threw THEN [self |-> z.self, ret |-> -1, threw |-> TRUE, cmds |-> <<zc>>]
    ELSE IF z.ret = 0
    THEN [self |-> [z.self EXCEPT !.mAndroidTimeZoneInit = 1],
          ret |-> 0, threw |-> FALSE, cmds |-> <<zc>>]
    ELSE
    Let(setAndroidTimeZoneUsingDate(
            z.self, RunDate(z.self.mTimeZoneName, now, dmode)), LAMBDA d :
    IF d.threw THEN [self |-> d.self, ret |-> -1, threw |-> TRUE, cmds |-> <<zc, dc>>]
    ELSE IF d.ret = 0
    THEN [self |-> [d.self EXCEPT !.mAndroidTimeZoneInit = 1],
          ret |-> 0, threw |-> FALSE, cmds |-> <<zc, dc>>]
    ELSE [self |-> d.self, ret |-> -1, threw |-> FALSE, cmds |-> <<zc, dc>>])))))

\* the command lines "zdump -v <zone> | grep <year>" and "TZ=<zone> date +%z"
\* that the two resolvers of an instance run
ZdumpCmd(self) == [util |-> "zdump", zone |-> self.mTimeZoneName, year |-> self.mCurrentYear]
DateCmd(self) == [util |-> "date", zone |-> self.mTimeZoneName, year |-> 0]

\* int TimeZone::androidTimeZoneSet(const char* tzname), at wall-clock time now,
\* with the outcomes zmode and dmode of the two commands should they be run.
\* cmds lists the commands that were run.
androidTimeZoneSet(self, tzname, now, zmode, dmode) ==
    Let([self EXCEPT !.mTimeZoneName = tzname, !.mAndroidTimeZoneInit = 0], LAMBDA s0 :
    Let(setAndroidTimeZoneUsingZdump(
            s0, RunZdump(s0.mTimeZoneName, s0.mCurrentYear, zmode)), LAMBDA z :
    IF z.threw
    THEN [self |-> z.self, ret |-> -1, threw |-> TRUE, cmds |-> <<ZdumpCmd(s0)>>]
    ELSE IF z.ret = 0
    THEN [self |-> [z.self EXCEPT !.mAndroidTimeZoneInit = 1],
          ret |-> 0, threw |-> FALSE, cmds |-> <<ZdumpCmd(s0)>>]
    ELSE
    Let(setAndroidTimeZoneUsingDate(
            z.self, RunDate(z.self.mTimeZoneName, now, dmode)), LAMBDA d :
    IF d.threw
    THEN [self |-> d.self, ret |-> -1, threw |-> TRUE,
          cmds |-> <<ZdumpCmd(s0), DateCmd(s0)>>]
    ELSE IF d.ret = 0
    THEN [self |-> [d.self EXCEPT !.mAndroidTimeZoneInit = 1],
          ret |-> 0, threw |-> FALSE, cmds |-> <<ZdumpCmd(s0), DateCmd(s0)>>]
    ELSE [self |-> d.self, ret |-> -1, threw |-> FALSE,
          cmds |-> <<ZdumpCmd(s0), DateCmd(s0)>>])))

\* getIsDaylightSavingTime answering "standard time" for a rule with no
\* daylight offset
getIsDaylightSavingTime_zeroForNone(self, timeNow) ==
    IF self.mDaylightOffset = 0 THEN 0
    ELSE Let(gmtime(timeNow), LAMBDA utc :
         IF utcCompare(utc, self.mStandardDateUtc) < 0
            \/ utcCompare(utc, self.mDaylightDateUtc) >= 0
         THEN 0
         ELSE 1)

\* getIsDaylightSavingTime with the second boundary inside the window
getIsDaylightSavingTime_closedWindow(self, timeNow) ==
    IF self.mDaylightOffset = 0 THEN -1
    ELSE Let(gmtime(timeNow), LAMBDA utc :
         IF utcCompare(utc, self.mStandardDateUtc) < 0
            \/ utcCompare(utc, self.mDaylightDateUtc) > 0
         THEN 0
         ELSE 1)

\* int TimeZone::getIsDaylightSavingTime(const time_t& timeNow)
getIsDaylightSavingTime(self, timeNow) ==
    IF self.mDaylightOffset = 0 THEN -1
    ELSE Let(gmtime(timeNow), LAMBDA utc :
         IF utcCompare(utc, self.mStandardDateUtc) < 0
            \/ utcCompare(utc, self.mDaylightDateUtc) >= 0
         THEN 0
         ELSE 1)

\* getTimeZoneDiff without the daylight offset
getTimeZoneDiff_standardOnly(self, timeNow) == self.mStandardOffset

\* long TimeZone::getTimeZoneDiff(const time_t& timeNow)
getTimeZoneDiff(self, timeNow) ==
    Let(getIsDaylightSavingTime(self, timeNow), LAMBDA isdst :
        IF isdst <= 0 THEN self.mStandardOffset
        ELSE self.mStandardOffset + self.mDaylightOffset)

----------------------------------------------------------------------------
(* androidTimeZoneSet, tabulated.  The call reads of the instance only      *)
(* mCurrentYear (and what it has itself written), so what it does to any    *)
(* instance is what it does to one whose other members carry a mark that no *)
(* run writes, laid over the members the call found.                        *)

\* the names given to timezone_set, and those of them the validator accepts
SetNames == {NewYork, Sydney, Kolkata, NotAZone, NULL}
ValidNames == {n \in SetNames : check_timezone_is_zoneinfo(n) = 1}

\* the wall-clock times of the model: noon of the 15th of July of each year
ClockTimes == {TimeOf(y, 7, 15, 12, 0, 0) : y \in Years}

UnwrittenTm == [tm_year |-> -1, tm_mon |-> -1, tm_mday |-> -1,
                tm_hour |-> -1, tm_min |-> -1, tm_sec |-> -1]
UnwrittenLong == kSecondsPerDay * 1000
UnwrittenInit == UnwrittenTm.tm_year
UnwrittenName == <<"unwritten">>

Unwritten(year) ==
    [mStandardDateUtc |-> UnwrittenTm,
     mDaylightDateUtc |-> UnwrittenTm,
     mStandardOffset |-> UnwrittenLong,
     mDaylightOffset |-> UnwrittenLong,
     mCurrentYear |-> year,
     mAndroidTimeZoneInit |-> UnwrittenInit,
     mTimeZoneName |-> UnwrittenName]

androidTimeZoneSetTable ==
    [tzname \in ValidNames \cup {HostZone}, year \in Years, now \in ClockTimes,
     zmode \in ZdumpModes, dmode \in DateModes |->
        androidTimeZoneSet(Unwritten(year), tzname, now, zmode, dmode)]

\* the fields of written that carry no mark, over those of tm
OverlayTm(tm, written) ==
    [f \in DOMAIN written |-> IF written[f] = UnwrittenTm[f] THEN tm[f] ELSE written[f]]

\* the members of written that carry no mark, over those of self
Overlay(self, written) ==
    [self EXCEPT
        !.mStandardDateUtc = OverlayTm(@, written.mStandardDateUtc),
        !.mDaylightDateUtc = OverlayTm(@, written.mDaylightDateUtc),
        !.mStandardOffset = IF written.mStandardOffset = UnwrittenLong
                            THEN @ ELSE written.mStandardOffset,
        !.mDaylightOffset = IF written.mDaylightOffset = UnwrittenLong
                            THEN @ ELSE written.mDaylightOffset,
        !.mAndroidTimeZoneInit = IF written.mAndroidTimeZoneInit = UnwrittenInit
                                 THEN @ ELSE written.mAndroidTimeZoneInit,
        !.mTimeZoneName = IF written.mTimeZoneName = UnwrittenName
                          THEN @ ELSE written.mTimeZoneName]

\* androidTimeZoneSet(self, tzname, now, zmode, dmode), looked up
androidTimeZoneSetOn(self, tzname, now, zmode, dmode) ==
    Let(androidTimeZoneSetTable[tzname, self.mCurrentYear, now, zmode, dmode], LAMBDA r :
        [r EXCEPT !.self = Overlay(self, r.self)])

\* the six date fields of tm with the tm_isdst flag of a struct tm result
WithIsDst(tm, isdst) ==
    [tm_year |-> tm.tm_year, tm_mon |-> tm.tm_mon, tm_mday |-> tm.tm_mday,
     tm_hour |-> tm.tm_hour, tm_min |-> tm.tm_min, tm_sec |-> tm.tm_sec,
     tm_isdst |-> isdst]

\* whether a query at timeNow re-resolves: the year-has-changed test
yearHasChanged(self, timeNow) ==
    self.mAndroidTimeZoneInit # 0 /\ gmtime(timeNow).tm_year + 1900 # self.mCurrentYear

\* the year-has-changed block re-resolving only for a later year
resetIfYearChanged_laterOnly(self, timeNow, now, zmode, dmode) ==
    Let(gmtime(timeNow).tm_year + 1900, LAMBDA year :
        IF self.mAndroidTimeZoneInit # 0 /\ year > self.mCurrentYear
        THEN Let(androidTimeZoneSetOn([self EXCEPT !.mCurrentYear = year],
                                      self.mTimeZoneName, now, zmode, dmode), LAMBDA r :
                 [self |-> r.self, threw |-> r.threw, cmds |-> r.cmds, resolves |-> 1])
        ELSE [self |-> self, threw |-> FALSE, cmds |-> <<>>, resolves |-> 0])

\* the year-has-changed block re-resolving whatever the year
resetIfYearChanged_everyCall(self, timeNow, now, zmode, dmode) ==
    Let(gmtime(timeNow).tm_year + 1900, LAMBDA year :
        IF self.mAndroidTimeZoneInit # 0
        THEN Let(androidTimeZoneSetOn([self EXCEPT !.mCurrentYear = year],
                                      self.mTimeZoneName, now, zmode, dmode), LAMBDA r :
                 [self |-> r.self, threw |-> r.threw, cmds |-> r.cmds, resolves |-> 1])
        ELSE [self |-> self, threw |-> FALSE, cmds |-> <<>>, resolves |-> 0])

\* the year-has-changed block re-resolving for the new year without storing it
resetIfYearChanged_yearNotStored(self, timeNow, now, zmode, dmode) ==
    Let(gmtime(timeNow).tm_year + 1900, LAMBDA year :
        IF self.mAndroidTimeZoneInit # 0 /\ year # self.mCurrentYear
        THEN Let(androidTimeZoneSetOn([self EXCEPT !.mCurrentYear = year],
                                      self.mTimeZoneName, now, zmode, dmode), LAMBDA r :
                 [self |-> [r.self EXCEPT !.mCurrentYear = self.mCurrentYear],
                  threw |-> r.threw, cmds |-> r.cmds, resolves |-> 1])
        ELSE [self |-> self, threw |-> FALSE, cmds |-> <<>>, resolves |-> 0])

\* the instance after the "reset android timezone if year has changed" block of
\* androidTimeZoneOffset and androidLocaltime; resolves counts the calls of
\* androidTimeZoneSet made
resetIfYearChanged(self, timeNow, now, zmode, dmode) ==
    Let(gmtime(timeNow).tm_year + 1900, LAMBDA year :
        IF self.mAndroidTimeZoneInit # 0 /\ year # self.mCurrentYear
        THEN Let(androidTimeZoneSetOn([self EXCEPT !.mCurrentYear = year],
                                      self.mTimeZoneName, now, zmode, dmode), LAMBDA r :
                 [self |-> r.self, threw |-> r.threw, cmds |-> r.cmds, resolves |-> 1])
        ELSE [self |-> self, threw |-> FALSE, cmds |-> <<>>, resolves |-> 0])

\* androidTimeZoneOffset with the arguments of its diffTime call exchanged
androidTimeZoneOffset_swapped(self, timeNow, now, zmode, dmode) ==
    IF self.mAndroidTimeZoneInit # 0
    THEN Let(resetIfYearChanged(self, timeNow, now, zmode, dmode), LAMBDA r :
             [self |-> r.self, threw |-> r.threw, cmds |-> r.cmds, resolves |-> r.resolves,
              ret |-> IF r.threw THEN 0 ELSE getTimeZoneDiff(r.self, timeNow)])
    ELSE [self |-> self, threw |-> FALSE, cmds |-> <<>>, resolves |-> 0,
          ret |-> diffTime(gmtime(timeNow), localtime(timeNow))]

\* androidTimeZoneOffset trying the resolution of the stored name again when it
\* finds the engine in HostFallback
androidTimeZoneOffset_retrying(self, timeNow, now, zmode, dmode) ==
    IF self.mAndroidTimeZoneInit # 0
    THEN Let(resetIfYearChanged(self, timeNow, now, zmode, dmode), LAMBDA r :
             [self |-> r.self, threw |-> r.threw, cmds |-> r.cmds, resolves |-> r.resolves,
              ret |-> IF r.threw THEN 0 ELSE getTimeZoneDiff(r.self, timeNow)])
    ELSE IF self.mTimeZoneName \in ValidNames
    THEN Let(androidTimeZoneSetOn(self, self.mTimeZoneName, now, zmode, dmode), LAMBDA r :
             [self |-> r.self, threw |-> r.threw, cmds |-> r.cmds, resolves |-> 1,
              ret |-> IF r.threw THEN 0
                      ELSE IF r.self.mAndroidTimeZoneInit # 0
                      THEN getTimeZoneDiff(r.self, timeNow)
                      ELSE diffTime(localtime(timeNow), gmtime(timeNow))])
    ELSE [self |-> self, threw |-> FALSE, cmds |-> <<>>, resolves |-> 0,
          ret |-> diffTime(localtime(timeNow), gmtime(timeNow))]

\* long TimeZone::androidTimeZoneOffset(const time_t& timeNow)
androidTimeZoneOffset(self, timeNow, now, zmode, dmode) ==
    IF self.mAndroidTimeZoneInit # 0
    THEN Let(resetIfYearChanged(self, timeNow, now, zmode, dmode), LAMBDA r :
             [self |-> r.self, threw |-> r.threw, cmds |-> r.cmds, resolves |-> r.resolves,
              ret |-> IF r.threw THEN 0 ELSE getTimeZoneDiff(r.self, timeNow)])
    ELSE [self |-> self, threw |-> FALSE, cmds |-> <<>>, resolves |-> 0,
          ret |-> diffTime(localtime(timeNow), gmtime(timeNow))]

\* androidLocaltime adding the standard offset whatever the daylight status
androidLocaltime_standardOnly(self, timeNow, now, zmode, dmode) ==
    IF self.mAndroidTimeZoneInit # 0
    THEN Let(resetIfYearChanged(self, timeNow, now, zmode, dmode), LAMBDA r :
             [self |-> r.self, threw |-> r.threw, cmds |-> r.cmds, resolves |-> r.resolves,
              ret |-> IF r.threw THEN 0
                      ELSE WithIsDst(gmtime(timeNow + r.self.mStandardOffset),
                                     getIsDaylightSavingTime(r.self, timeNow))])
    ELSE [self |-> self, threw |-> FALSE, cmds |-> <<>>, resolves |-> 0,
          ret |-> WithIsDst(localtime(timeNow),
                            IF ZoneIsDstAt(HostZone, timeNow) THEN 1 ELSE 0)]

\* struct tm* TimeZone::androidLocaltime(const time_t& timeNow)
androidLocaltime(self, timeNow, now, zmode, dmode) ==
    IF self.mAndroidTimeZoneInit # 0
    THEN Let(resetIfYearChanged(self, timeNow, now, zmode, dmode), LAMBDA r :
             [self |-> r.self, threw |-> r.threw, cmds |-> r.cmds, resolves |-> r.resolves,
              ret |-> IF r.threw THEN 0
                      ELSE WithIsDst(gmtime(timeNow + getTimeZoneDiff(r.self, timeNow)),
                                     getIsDaylightSavingTime(r.self, timeNow))])
    ELSE [self |-> self, threw |-> FALSE, cmds |-> <<>>, resolves |-> 0,
          ret |-> WithIsDst(localtime(timeNow),
                            IF ZoneIsDstAt(HostZone, timeNow) THEN 1 ELSE 0)]

----------------------------------------------------------------------------
(* The process: the state of sAndroidTimeZone and of the statics, and the   *)
(* entry points as actions                                                  *)

\* sizeof(android_timezone0)
AndroidTimezone0Size == 256

\* the value of the pointer android_timezone when it points to the buffer
\* android_timezone0 (it is otherwise NULL or, in the win32 build, a
\* zoneinfo_name of _win32_timezones)
AddressOfTimezone0 == <<"&android_timezone0">>

\* the members of the instance, as a record
Self ==
    [mStandardDateUtc |-> mStandardDateUtc,
     mDaylightDateUtc |-> mDaylightDateUtc,
     mStandardOffset |-> mStandardOffset,
     mDaylightOffset |-> mDaylightOffset,
     mCurrentYear |-> mCurrentYear,
     mAndroidTimeZoneInit |-> mAndroidTimeZoneInit,
     mTimeZoneName |-> mTimeZoneName]

\* a first use that resolves the host's zone in the instance it constructs
Instance_resolvingHostZone ==
    IF constructed THEN Self
    ELSE androidTimeZoneSet(TimeZone(clock), HostZone, clock, "ok", "ok").self

\* sAndroidTimeZone.get(): the instance, constructed now if this is the first use
Instance == IF constructed THEN Self ELSE TimeZone(clock)

\* the instance becomes self
SetInstance(self) ==
    /\ constructed' = TRUE
    /\ mStandardDateUtc' = self.mStandardDateUtc
    /\ mDaylightDateUtc' = self.mDaylightDateUtc
    /\ mStandardOffset' = self.mStandardOffset
    /\ mDaylightOffset' = self.mDaylightOffset
    /\ mCurrentYear' = self.mCurrentYear
    /\ mAndroidTimeZoneInit' = self.mAndroidTimeZoneInit
    /\ mTimeZoneName' = self.mTimeZoneName

\* the instants queried: in each year its first and its last second, the first
\* of July, and each transition of New York with the second before it
QueryTimes ==
    UNION {
        {TimeOf(y, 1, 1, 0, 0, 0), TimeOf(y, 7, 1, 0, 0, 0),
         ZoneRule(NewYork, y).first - 1, ZoneRule(NewYork, y).first,
         ZoneRule(NewYork, y).second - 1, ZoneRule(NewYork, y).second,
         TimeOf(y, 12, 31, 23, 59, 59)}
        : y \in Years }

\* the outcomes of zdump worth telling apart: any, when the call resolves
ZdumpModesWhen(resolves) == IF resolves THEN ZdumpModes ELSE {"ok"}

\* the outcomes of date worth telling apart: any, when date is run
DateModesWhen(self, tzname, resolves, zmode) ==
    IF resolves /\ Len(androidTimeZoneSetOn(self, tzname, clock, zmode, "ok").cmds) = 2
    THEN DateModes ELSE {"ok"}

\* what a call records of the instance it found
Pre(self) ==
    [init |-> self.mAndroidTimeZoneInit, year |-> self.mCurrentYear,
     name |-> self.mTimeZoneName]

\* the record of no call.  The record of a call: the entry point op, its
\* argument (name or t), the value returned (ret) unless an exception left the
\* call (threw), the calls of androidTimeZoneSet it made (resolves) and the
\* commands those ran (cmds), what the call found (pre), and, when the call
\* repeats the one before it (again), what that one returned and did (before).
NoCall ==
    [op |-> "none", name |-> NULL, t |-> 0, ret |-> 0, threw |-> FALSE,
     resolves |-> 0, cmds |-> <<>>, pre |-> [init |-> 0, year |-> 0, name |-> <<>>],
     again |-> FALSE,
     before |-> [ret |-> 0, resolves |-> 0, pre |-> [init |-> 0, year |-> 0, name |-> <<>>]]]

\* of the record of a call, what the record of its repetition keeps
Before(call) == [ret |-> call.ret, resolves |-> call.resolves, pre |-> call.pre]

\* the rule of an instance: its two dates and its two offsets
Rule(self) ==
    [mStandardDateUtc |-> self.mStandardDateUtc,
     mDaylightDateUtc |-> self.mDaylightDateUtc,
     mStandardOffset |-> self.mStandardOffset,
     mDaylightOffset |-> self.mDaylightOffset]

\* no thread is inside a call.  Of the writer: where it is (pc), the calls it
\* has made, the instance its call is writing (res) and every rule a call of
\* androidTimeZoneSet has resolved so far (rules).  Of the reader: where it is,
\* the instant asked, the isdst and the result it has computed, and the
\* members of the rule it has read (ms) with the values it read (vals).
NoWriter == [pc |-> "idle", calls |-> 0, res |-> TimeZone(0), rules |-> {}]
NoReader == [pc |-> "idle", t |-> 0, isdst |-> 0, ret |-> 0, ms |-> {},
             vals |-> Rule(TimeZone(0))]

\* the process before any call: the instance not yet constructed
InitProcess ==
    /\ constructed = FALSE
    /\ mStandardDateUtc = IndeterminateTm
    /\ mDaylightDateUtc = IndeterminateTm
    /\ mStandardOffset = Indeterminate
    /\ mDaylightOffset = Indeterminate
    /\ mCurrentYear = Indeterminate
    /\ mAndroidTimeZoneInit = Indeterminate
    /\ mTimeZoneName = Indeterminate
    /\ android_timezone0 = <<>>
    /\ android_timezone = NULL
    /\ android_timezone_init = 0
    /\ clock = TimeOf(2024, 7, 15, 12, 0, 0)
    /\ crashed = FALSE
    /\ writer = NoWriter
    /\ reader = NoReader
    /\ mRecording = TRUE
    /\ mContainer = <<>>

Init == InitProcess /\ platform = "linux" /\ last = NoCall

\* no call is on record: the next call is any call
Idle == last.op = "none"

\* the call on record was op with the instant time, and was not itself a
\* repetition: the next call may repeat it
Repeats(op, time) == last.op = op /\ last.t = time /\ ~last.again

\* the record of the call is dropped
Forget ==
    /\ ~crashed
    /\ ~Idle
    /\ last' = NoCall
    /\ UNCHANGED <<mRecording, mContainer, engineVars, staticVars, envVars, threadVars>>

\* the wall clock advances
Tick ==
    /\ ~crashed
    /\ Idle
    /\ \E now \in ClockTimes : now > clock /\ clock' = now
    /\ UNCHANGED <<mRecording, mContainer, engineVars, staticVars, crashed, platform, last, threadVars>>

\* timezone_set from the strcpy on: the name has passed the two checks
timezone_set_resolve(tzname) ==
    \E zmode \in ZdumpModes :
      \E dmode \in DateModesWhen(Instance, tzname, TRUE, zmode) :
        \E r \in {androidTimeZoneSetOn(Instance, tzname, clock, zmode, dmode)} :
           /\ android_timezone0' = tzname
           /\ android_timezone' = AddressOfTimezone0
           /\ android_timezone_init' = IF ~r.threw /\ r.ret = 0 THEN 1 ELSE 0
           /\ SetInstance(r.self)
           /\ crashed' = r.threw
           /\ last' = [NoCall EXCEPT !.op = "timezone_set", !.name = tzname,
                                     !.ret = IF r.ret # 0 THEN -1 ELSE 0,
                                     !.threw = r.threw, !.resolves = 1,
                                     !.cmds = r.cmds, !.pre = Pre(Instance)]
           /\ UNCHANGED <<mRecording, mContainer, clock, platform, threadVars>>

\* timezone_set returning -1 from a check after marking the instance unresolved
timezone_set_reject_unresolving(tzname) ==
    /\ android_timezone_init' = 0
    /\ SetInstance([Instance EXCEPT !.mAndroidTimeZoneInit = 0])
    /\ last' = [NoCall EXCEPT !.op = "timezone_set", !.name = tzname,
                              !.ret = -1, !.pre = Pre(Instance)]
    /\ UNCHANGED <<mRecording, mContainer, android_timezone0, android_timezone, envVars, threadVars>>

\* timezone_set returning -1 from one of its two checks
timezone_set_reject(tzname) ==
    /\ android_timezone_init' = 0
    /\ last' = [NoCall EXCEPT !.op = "timezone_set", !.name = tzname,
                              !.ret = -1, !.pre = Pre(Instance)]
    /\ UNCHANGED <<mRecording, mContainer, engineVars, android_timezone0, android_timezone, envVars, threadVars>>

\* int timezone_set(const char* tzname)
timezone_set(tzname) ==
    /\ ~crashed
    /\ Idle
    /\ IF check_timezone_is_zoneinfo(tzname) = 0 THEN timezone_set_reject(tzname)
       ELSE IF Len(tzname) > AndroidTimezone0Size - 1 THEN timezone_set_reject(tzname)
       ELSE timezone_set_resolve(tzname)

\* long android_tzoffset_in_seconds(time_t* time_p)
android_tzoffset_in_seconds(time) ==
    /\ ~crashed
    /\ Idle \/ Repeats("android_tzoffset_in_seconds", time)
    /\ \E zmode \in ZdumpModesWhen(yearHasChanged(Instance, time)) :
         \E dmode \in DateModesWhen([Instance EXCEPT !.mCurrentYear = gmtime(time).tm_year + 1900],
                                    Instance.mTimeZoneName,
                                    yearHasChanged(Instance, time), zmode) :
           \E r \in {androidTimeZoneOffset(Instance, time, clock, zmode, dmode)} :
              /\ SetInstance(r.self)
              /\ crashed' = r.threw
              /\ last' = [op |-> "android_tzoffset_in_seconds", name |-> NULL, t |-> time,
                          ret |-> r.ret, threw |-> r.threw, resolves |-> r.resolves,
                          cmds |-> r.cmds, pre |-> Pre(Instance),
                          again |-> ~Idle, before |-> Before(last)]
              /\ UNCHANGED <<mRecording, mContainer, staticVars, clock, platform, threadVars>>

\* struct tm* android_localtime(time_t* time_p)
android_localtime(time) ==
    /\ ~crashed
    /\ Idle \/ Repeats("android_localtime", time)
    /\ \E zmode \in ZdumpModesWhen(yearHasChanged(Instance, time)) :
         \E dmode \in DateModesWhen([Instance EXCEPT !.mCurrentYear = gmtime(time).tm_year + 1900],
                                    Instance.mTimeZoneName,
                                    yearHasChanged(Instance, time), zmode) :
           \E r \in {androidLocaltime(Instance, time, clock, zmode, dmode)} :
              /\ SetInstance(r.self)
              /\ crashed' = r.threw
              /\ last' = [op |-> "android_localtime", name |-> NULL, t |-> time,
                          ret |-> r.ret, threw |-> r.threw, resolves |-> r.resolves,
                          cmds |-> r.cmds, pre |-> Pre(Instance),
                          again |-> ~Idle, before |-> Before(last)]
              /\ UNCHANGED <<mRecording, mContainer, staticVars, clock, platform, threadVars>>

vars == <<engineVars, staticVars, envVars, last, threadVars, mRecording, mContainer>>

Next ==
    \/ Forget
    \/ Tick
    \/ \E tzname \in SetNames : timezone_set(tzname)
    \/ \E time \in QueryTimes : android_tzoffset_in_seconds(time)
    \/ \E time \in QueryTimes : android_localtime(time)

Spec == Init /\ [][Next]_vars

----------------------------------------------------------------------------
(* The host's file system, as the discoverer of the linux build sees it: a  *)
(* function from the paths that exist to nodes.  A node is a regular file   *)
(* with its bytes, a directory with the names readdir returns, in the order *)
(* it returns them, or a symbolic link with the text readlink returns       *)
(* (target) and the path that text resolves to (to).                        *)

\* #define ZONEINFO_DIR and LOCALTIME_FILE1 (LOCALTIME_FILE in the apple build)
ZONEINFO_DIR == <<"/", "u", "s", "r", "/", "s", "h", "a", "r", "e", "/", "z", "o", "n", "e", "i", "n", "f", "o", "/">>
LOCALTIME_FILE1 == <<"/", "e", "t", "c", "/", "l", "o", "c", "a", "l", "t", "i", "m", "e">>

File(data, readable) == [kind |-> "reg", data |-> data, readable |-> readable]
Dir(entries, readable) == [kind |-> "dir", entries |-> entries, readable |-> readable]
Link(target, to) == [kind |-> "lnk", target |-> target, to |-> to]

\* the path a path names once the symbolic links are followed
RECURSIVE Follow(_, _)
Follow(fs, path) ==
    IF path \in DOMAIN fs /\ fs[path].kind = "lnk" THEN Follow(fs, fs[path].to) ELSE path

\* stat(path, &st): ret and, when ret is 0, st_size and the kind in st_mode
stat(fs, path) ==
    Let(Follow(fs, path), LAMBDA f :
        IF f \notin DOMAIN fs THEN [ret |-> -1, st_size |-> 0, kind |-> "none"]
        ELSE [ret |-> 0, kind |-> fs[f].kind,
              st_size |-> IF fs[f].kind = "reg" THEN Len(fs[f].data) ELSE 0])

\* lstat following the link, as stat does
lstat_following(fs, path) ==
    Let(Follow(fs, path), LAMBDA f :
        IF f \notin DOMAIN fs THEN [ret |-> -1, st_size |-> 0, kind |-> "none"]
        ELSE [ret |-> 0, kind |-> fs[f].kind,
              st_size |-> IF fs[f].kind = "reg" THEN Len(fs[f].data) ELSE 0])

\* lstat(path, &st): as stat, of the link itself
lstat(fs, path) ==
    IF path \notin DOMAIN fs THEN [ret |-> -1, st_size |-> 0, kind |-> "none"]
    ELSE [ret |-> 0, kind |-> fs[path].kind,
          st_size |-> IF fs[path].kind = "reg" THEN Len(fs[path].data) ELSE 0]

\* access(path, R_OK) == 0, which is also whether open(path, O_RDONLY) and
\* opendir(path) succeed
access_R_OK(fs, path) ==
    Let(Follow(fs, path), LAMBDA f : f \in DOMAIN fs /\ fs[f].readable)

\* the bytes read() returns from an open regular file
Contents(fs, path) == fs[Follow(fs, path)].data

\* the ScanDataRec the discoverer fills in before it scans: the reference
\* file, what stat() said of it, and the root scanned
ScanData(fs, file, tzdir) ==
    [localtime |-> file, localtime_st |-> stat(fs, file), tzdir |-> tzdir]

\* the value of nn when the loop "for (nn = 0; nn < st.st_size; nn++)" of
\* compare_timezone_to_localtime is left, and the read() calls made, from nn on
RECURSIVE CompareLoop(_, _, _, _, _)
CompareLoop(data1, data2, size, nn, reads) ==
    IF nn >= size THEN [nn |-> nn, reads |-> reads]
    ELSE IF data1[nn + 1] # data2[nn + 1] THEN [nn |-> nn, reads |-> reads + 2]
    ELSE CompareLoop(data1, data2, size, nn + 1, reads + 2)

\* compare_timezone_to_localtime returning 1 for every candidate of the
\* reference file's size
compare_timezone_to_localtime_sizeOnly(fs, scan, path) ==
    Let(stat(fs, path), LAMBDA st :
    IF st.ret < 0 THEN [result |-> 0, opens |-> 0, reads |-> 0]
    ELSE IF st.st_size # scan.localtime_st.st_size THEN [result |-> 0, opens |-> 0, reads |-> 0]
    ELSE [result |-> 1, opens |-> 0, reads |-> 0])

\* static int compare_timezone_to_localtime(ScanDataRec* scan, const char* path)
\* result is the value returned; opens and reads count the calls of open() and
\* read() made.  The files are what they were when stat() gave their sizes.
compare_timezone_to_localtime(fs, scan, path) ==
    Let(stat(fs, path), LAMBDA st :
    IF st.ret < 0 THEN [result |-> 0, opens |-> 0, reads |-> 0]
    ELSE IF st.st_size # scan.localtime_st.st_size THEN [result |-> 0, opens |-> 0, reads |-> 0]
    ELSE IF ~access_R_OK(fs, scan.localtime) THEN [result |-> 0, opens |-> 1, reads |-> 0]
    ELSE IF ~access_R_OK(fs, path) THEN [result |-> 0, opens |-> 2, reads |-> 0]
    ELSE Let(CompareLoop(Contents(fs, scan.localtime), Contents(fs, path), st.st_size, 0, 0),
             LAMBDA loop : [result |-> IF loop.nn = st.st_size THEN 1 ELSE 0,
                            opens |-> 2, reads |-> loop.reads]))

\* PATH_MAX of <limits.h>: the size of scan->path and of temp
PATH_MAX == 4096

\* readlink(path, buf, size): the text of the link, or NULL for a result < 0
readlink(fs, path) ==
    IF path \in DOMAIN fs /\ fs[path].kind = "lnk" THEN fs[path].target ELSE NULL

\* "remove trailing slash, if any"; the host resolves a directory named with
\* a trailing slash as it does the directory
StripSlash(path) ==
    IF path # <<>> /\ path[Len(path)] = "/" THEN SubSeq(path, 1, Len(path) - 1) ELSE path

\* static const char* scan_timezone_dir(ScanDataRec* scan, char* top, int depth)
\* dir is scan->path up to top; ScanEntries is the readdir loop from the i-th
\* entry on.  The value is the name found, or NULL.
RECURSIVE scan_timezone_dir(_, _, _, _)
RECURSIVE ScanEntries(_, _, _, _, _)
ScanEntries(fs, scan, dir, depth, i) ==
    IF i > Len(fs[Follow(fs, dir)].entries) THEN NULL
    ELSE Let(dir \o <<"/">> \o fs[Follow(fs, dir)].entries[i], LAMBDA path :
         IF fs[Follow(fs, dir)].entries[i][1] = "." THEN ScanEntries(fs, scan, dir, depth, i + 1)
         ELSE IF Len(path) >= PATH_MAX THEN ScanEntries(fs, scan, dir, depth, i + 1)
         ELSE IF lstat(fs, path).ret < 0 THEN ScanEntries(fs, scan, dir, depth, i + 1)
         ELSE IF lstat(fs, path).kind = "dir" /\ depth < 2
              THEN Let(scan_timezone_dir(fs, scan, path, depth + 1), LAMBDA result :
                       IF result # NULL THEN result
                       ELSE ScanEntries(fs, scan, dir, depth, i + 1))
         ELSE IF lstat(fs, path).kind = "reg" /\ depth >= 1 /\ depth <= 2
              THEN Let(SubSeq(path, Len(scan.tzdir) + 2, Len(path)), LAMBDA name :
                       IF check_timezone_is_zoneinfo(name) = 1
                            /\ compare_timezone_to_localtime(fs, scan, path).result # 0
                       THEN name
                       ELSE ScanEntries(fs, scan, dir, depth, i + 1))
         ELSE ScanEntries(fs, scan, dir, depth, i + 1))

scan_timezone_dir(fs, scan, dir, depth) ==
    IF Follow(fs, dir) \in DOMAIN fs /\ fs[Follow(fs, dir)].kind = "dir"
          /\ fs[Follow(fs, dir)].readable
    THEN ScanEntries(fs, scan, dir, depth, 1)
    ELSE NULL

\* static const Win32Timezone _win32_timezones[], win32 build: the rows of
\* lines 423, 424, 425, 557, 558, 665, 666, 669, 670, 795, 837 of the table, in the table's order
\* (the rows left out are of the same form; the closing {NULL, NULL} row is
\* the end of the sequence)
win32_timezones ==
    <<
      [win_name |-> "AUS Central Standard Time",
       zoneinfo_name |-> <<"A", "u", "s", "t", "r", "a", "l", "i", "a", "/", "D", "a", "r", "w", "i", "n">>],
      [win_name |-> "AUS Eastern Standard Time",
       zoneinfo_name |-> <<"A", "u", "s", "t", "r", "a", "l", "i", "a", "/", "S", "y", "d", "n", "e", "y">>],
      [win_name |-> "AUS Eastern Standard Time",
       zoneinfo_name |-> <<"A", "u", "s", "t", "r", "a", "l", "i", "a", "/", "M", "e", "l", "b", "o", "u", "r", "n", "e">>],
      [win_name |-> "Eastern Standard Time",
       zoneinfo_name |-> <<"A", "m", "e", "r", "i", "c", "a", "/", "N", "e", "w", "_", "Y", "o", "r", "k">>],
      [win_name |-> "Eastern Standard Time",
       zoneinfo_name |-> <<"A", "m", "e", "r", "i", "c", "a", "/", "N", "a", "s", "s", "a", "u">>],
      [win_name |-> "Pacific Standard Time",
       zoneinfo_name |-> <<"A", "m", "e", "r", "i", "c", "a", "/", "L", "o", "s", "_", "A", "n", "g", "e", "l", "e", "s">>],
      [win_name |-> "Pacific Standard Time",
       zoneinfo_name |-> <<"A", "m", "e", "r", "i", "c", "a", "/", "V", "a", "n", "c", "o", "u", "v", "e", "r">>],
      [win_name |-> "Pacific Standard Time",
       zoneinfo_name |-> <<"P", "S", "T", "8", "P", "D", "T">>],
      [win_name |-> "Pacific Standard Time (Mexico)",
       zoneinfo_name |-> <<"A", "m", "e", "r", "i", "c", "a", "/", "T", "i", "j", "u", "a", "n", "a">>],
      [win_name |-> "UTC",
       zoneinfo_name |-> <<"E", "t", "c", "/", "G", "M", "T">>],
      [win_name |-> "W. Europe Standard Time",
       zoneinfo_name |-> <<"E", "u", "r", "o", "p", "e", "/", "B", "e", "r", "l", "i", "n">>]
    >>

\* &_win32_timezones[i].zoneinfo_name, as a value of the pointer android_timezone
RowPointer(i) == <<"&_win32_timezones[i].zoneinfo_name", ToString(i)>>

\* the string android_timezone points to, NULL for the null pointer
PointedTo(s) ==
    IF s.android_timezone = NULL THEN NULL
    ELSE IF s.android_timezone = AddressOfTimezone0 THEN s.android_timezone0
    ELSE win32_timezones[CHOOSE i \in DOMAIN win32_timezones :
                             RowPointer(i) = s.android_timezone].zoneinfo_name

\* what get_zoneinfo_timezone leaves and returns once it has looked for tz:
\* "if (tz == NULL) return NULL;", else the snprintf into android_timezone0
\* and "return android_timezone".  s is the three statics as found, ret what
\* the pointer returned points to, calls the system calls made.
Discovered(s, tz, calls) ==
    IF tz = NULL
    THEN [s EXCEPT !.android_timezone_init = 1] @@ [ret |-> NULL, calls |-> calls]
    ELSE Let(IF Len(tz) > AndroidTimezone0Size - 1
             THEN SubSeq(tz, 1, AndroidTimezone0Size - 1) ELSE tz, LAMBDA printed :
             [android_timezone0 |-> printed,
              android_timezone |-> AddressOfTimezone0,
              android_timezone_init |-> 1,
              ret |-> printed,
              calls |-> calls])

\* get_zoneinfo_timezone called again: "return android_timezone"
AlreadyDiscovered(s) ==
    s @@ [ret |-> PointedTo(s), calls |-> <<>>]

\* LinuxDiscover without the quick check of a symbolic link
LinuxDiscover_alwaysScans(host, s, tzdir) ==
    Let(IF access_R_OK(host.fs, LOCALTIME_FILE1) THEN LOCALTIME_FILE1
        ELSE IF Len(tzdir) + 10 < PATH_MAX
                  /\ access_R_OK(host.fs, tzdir \o <<"/", "l", "o", "c", "a", "l", "t", "i", "m", "e">>)
             THEN tzdir \o <<"/", "l", "o", "c", "a", "l", "t", "i", "m", "e">>
        ELSE NULL, LAMBDA file :
    IF file = NULL
    THEN Discovered(s, NULL, IF access_R_OK(host.fs, LOCALTIME_FILE1)
                             THEN <<"access", "access">>
                             ELSE <<"access", "access", "access">>)
    ELSE Let(<<"access", "access">>
             \o (IF file = LOCALTIME_FILE1 THEN <<>> ELSE <<"access">>), LAMBDA calls :
         IF stat(host.fs, file).ret < 0
         THEN Discovered(s, NULL, calls \o <<"stat">>)
         ELSE Discovered(s, scan_timezone_dir(host.fs, ScanData(host.fs, file, tzdir), tzdir, 0),
                         calls \o <<"stat", "scan_timezone_dir">>)))

\* the rest of the linux build's discovery, once tzdir is known: the
\* localtime file, the quick check of a symbolic link, the scan
LinuxDiscover(host, s, tzdir) ==
    Let(IF access_R_OK(host.fs, LOCALTIME_FILE1) THEN LOCALTIME_FILE1
        ELSE IF Len(tzdir) + 10 < PATH_MAX
                  /\ access_R_OK(host.fs, tzdir \o <<"/", "l", "o", "c", "a", "l", "t", "i", "m", "e">>)
             THEN tzdir \o <<"/", "l", "o", "c", "a", "l", "t", "i", "m", "e">>
        ELSE NULL, LAMBDA file :
    IF file = NULL
    THEN Discovered(s, NULL, IF access_R_OK(host.fs, LOCALTIME_FILE1)
                             THEN <<"access", "access">>
                             ELSE <<"access", "access", "access">>)
    ELSE Let(<<"access", "access">>
             \o (IF file = LOCALTIME_FILE1 THEN <<>> ELSE <<"access">>)
             \o <<"readlink">>, LAMBDA calls :
         Let(readlink(host.fs, file), LAMBDA temp :
         IF temp # NULL /\ Len(temp) > Len(tzdir) + 2
               /\ SubSeq(temp, 1, Len(tzdir)) = tzdir
               /\ temp[Len(tzdir) + 1] = "/"
               /\ check_timezone_is_zoneinfo(SubSeq(temp, Len(tzdir) + 2, Len(temp))) = 1
         THEN Discovered(s, SubSeq(temp, Len(tzdir) + 2, Len(temp)), calls)
         ELSE IF stat(host.fs, file).ret < 0
         THEN Discovered(s, NULL, calls \o <<"stat">>)
         ELSE Discovered(s, scan_timezone_dir(host.fs, ScanData(host.fs, file, tzdir), tzdir, 0),
                         calls \o <<"stat", "scan_timezone_dir">>))))

\* static const char* get_zoneinfo_timezone(void), linux and FreeBSD build
get_zoneinfo_timezone_linux(host, s) ==
    IF s.android_timezone_init # 0 THEN AlreadyDiscovered(s)
    ELSE IF host.TZ # NULL /\ check_timezone_is_zoneinfo(host.TZ) = 1
         THEN Discovered(s, host.TZ, <<>>)
    ELSE Let(IF host.TZDIR = NULL THEN ZONEINFO_DIR ELSE host.TZDIR, LAMBDA env :
         IF ~access_R_OK(host.fs, StripSlash(env))
         THEN [s EXCEPT !.android_timezone_init = 1] @@ [ret |-> NULL, calls |-> <<"access">>]
         ELSE LinuxDiscover(host, s, StripSlash(env)))

\* static const char* get_zoneinfo_timezone(void), apple build
get_zoneinfo_timezone_apple(host, s) ==
    IF s.android_timezone_init # 0 THEN AlreadyDiscovered(s)
    ELSE IF host.TZ # NULL THEN Discovered(s, host.TZ, <<>>)
    ELSE Let(readlink(host.fs, LOCALTIME_FILE1), LAMBDA buff :
         IF buff = NULL THEN Discovered(s, NULL, <<"readlink">>)
         ELSE IF ~(Len(buff) >= Len(ZONEINFO_DIR)
                     /\ SubSeq(buff, 1, Len(ZONEINFO_DIR)) = ZONEINFO_DIR)
              THEN Discovered(s, NULL, <<"readlink">>)
         ELSE IF check_timezone_is_zoneinfo(
                     SubSeq(buff, Len(ZONEINFO_DIR) + 1, Len(buff))) = 0
              THEN Discovered(s, NULL, <<"readlink">>)
         ELSE Discovered(s, SubSeq(buff, Len(ZONEINFO_DIR) + 1, Len(buff)), <<"readlink">>))

\* get_zoneinfo_timezone of the win32 build taking the last row of the host's
\* name instead of the first
get_zoneinfo_timezone_win32_lastRow(host, s) ==
    IF s.android_timezone_init # 0 THEN AlreadyDiscovered(s)
    ELSE IF ~host.localtime_ok
         THEN [s EXCEPT !.android_timezone_init = 1] @@ [ret |-> NULL, calls |-> <<>>]
    ELSE Let({i \in DOMAIN win32_timezones : win32_timezones[i].win_name = host.tzname},
             LAMBDA found :
             IF found = {}
             THEN [s EXCEPT !.android_timezone_init = 1] @@ [ret |-> NULL, calls |-> <<>>]
             ELSE Let(CHOOSE i \in found : \A j \in found : j <= i, LAMBDA row :
                      [android_timezone0 |-> s.android_timezone0,
                       android_timezone |-> RowPointer(row),
                       android_timezone_init |-> 1,
                       ret |-> win32_timezones[row].zoneinfo_name,
                       calls |-> <<>>]))

\* static const char* get_zoneinfo_timezone(void), win32 build.  tzname is
\* what strftime("%Z") of localtime(time(NULL)) gives, localtime_ok whether
\* localtime returned a tm.
get_zoneinfo_timezone_win32(host, s) ==
    IF s.android_timezone_init # 0 THEN AlreadyDiscovered(s)
    ELSE IF ~host.localtime_ok
         THEN [s EXCEPT !.android_timezone_init = 1] @@ [ret |-> NULL, calls |-> <<>>]
    ELSE Let({i \in DOMAIN win32_timezones : win32_timezones[i].win_name = host.tzname},
             LAMBDA found :
             IF found = {}
             THEN [s EXCEPT !.android_timezone_init = 1] @@ [ret |-> NULL, calls |-> <<>>]
             ELSE Let(CHOOSE i \in found : \A j \in found : i <= j, LAMBDA row :
                      [android_timezone0 |-> s.android_timezone0,
                       android_timezone |-> RowPointer(row),
                       android_timezone_init |-> 1,
                       ret |-> win32_timezones[row].zoneinfo_name,
                       calls |-> <<>>]))

\* get_zoneinfo_timezone of the build
\* a get_zoneinfo_timezone that does not look at android_timezone_init
get_zoneinfo_timezone_discovering(host, s) ==
    CASE platform = "linux" ->
             get_zoneinfo_timezone_linux(host, [s EXCEPT !.android_timezone_init = 0])
      [] platform = "apple" ->
             get_zoneinfo_timezone_apple(host, [s EXCEPT !.android_timezone_init = 0])
      [] platform = "win32" ->
             get_zoneinfo_timezone_win32(host, [s EXCEPT !.android_timezone_init = 0])

get_zoneinfo_timezone(host, s) ==
    CASE platform = "linux" -> get_zoneinfo_timezone_linux(host, s)
      [] platform = "apple" -> get_zoneinfo_timezone_apple(host, s)
      [] platform = "win32" -> get_zoneinfo_timezone_win32(host, s)

\* the TZI values of HKLM\\SOFTWARE\\Microsoft\\Windows NT\\CurrentVersion\\Time Zones
\* of a Windows host, as REG_TZI_FORMAT records, by key name
RegistryTZI ==
    ("Pacific Standard Time" :>
         [Bias |-> 480, StandardBias |-> 0, DaylightBias |-> -60,
          StandardDate |-> [wYear |-> 0, wMonth |-> 11, wDayOfWeek |-> 0, wDay |-> 1, wHour |-> 2, wMinute |-> 0, wSecond |-> 0],
          DaylightDate |-> [wYear |-> 0, wMonth |-> 3, wDayOfWeek |-> 0, wDay |-> 2, wHour |-> 2, wMinute |-> 0, wSecond |-> 0]])
    @@ ("W. Europe Standard Time" :>
         [Bias |-> -60, StandardBias |-> 0, DaylightBias |-> -60,
          StandardDate |-> [wYear |-> 0, wMonth |-> 10, wDayOfWeek |-> 0, wDay |-> 5, wHour |-> 3, wMinute |-> 0, wSecond |-> 0],
          DaylightDate |-> [wYear |-> 0, wMonth |-> 3, wDayOfWeek |-> 0, wDay |-> 5, wHour |-> 2, wMinute |-> 0, wSecond |-> 0]])
    @@ ("AUS Eastern Standard Time" :>
         [Bias |-> -600, StandardBias |-> 0, DaylightBias |-> -60,
          StandardDate |-> [wYear |-> 0, wMonth |-> 4, wDayOfWeek |-> 0, wDay |-> 1, wHour |-> 3, wMinute |-> 0, wSecond |-> 0],
          DaylightDate |-> [wYear |-> 0, wMonth |-> 10, wDayOfWeek |-> 0, wDay |-> 1, wHour |-> 2, wMinute |-> 0, wSecond |-> 0]])
    @@ ("UTC" :>
         [Bias |-> 0, StandardBias |-> 0, DaylightBias |-> 0,
          StandardDate |-> [wYear |-> 0, wMonth |-> 0, wDayOfWeek |-> 0, wDay |-> 0, wHour |-> 0, wMinute |-> 0, wSecond |-> 0],
          DaylightDate |-> [wYear |-> 0, wMonth |-> 0, wDayOfWeek |-> 0, wDay |-> 0, wHour |-> 0, wMinute |-> 0, wSecond |-> 0]])

\* int TimeZone::parseTimeZoneInformationFromRegistry(winName, tzi): ret, and
\* tzi when ret is 0.  registry is what the host's registry does: "ok",
\* "RegOpenKeyEx fails" or "RegQueryValueEx fails"; a key the host does not
\* have does not open.
parseTimeZoneInformationFromRegistry(host, winName) ==
    IF host.registry = "RegOpenKeyEx fails" \/ winName \notin DOMAIN RegistryTZI
    THEN [ret |-> -1, tzi |-> <<>>]
    ELSE IF host.registry = "RegQueryValueEx fails" THEN [ret |-> -1, tzi |-> <<>>]
    ELSE [ret |-> 0, tzi |-> RegistryTZI[winName]]

\* void TimeZone::parseSystemTime(const SYSTEMTIME& winTime, struct tm* androidTime)
parseSystemTime(winTime, androidTime) ==
    [androidTime EXCEPT !.tm_year = winTime.wYear - 1900,
                        !.tm_mon = winTime.wMonth - 1,
                        !.tm_mday = winTime.wDay,
                        !.tm_hour = winTime.wHour,
                        !.tm_min = winTime.wMinute,
                        !.tm_sec = winTime.wSecond]

\* an androidTimeZoneSet of the win32 build that adds the record's Bias to
\* the standard offset
androidTimeZoneSet_win32_withBias(self, tzname, host) ==
    Let([self EXCEPT !.mTimeZoneName = tzname, !.mAndroidTimeZoneInit = 0], LAMBDA s0 :
    Let({i \in DOMAIN win32_timezones : win32_timezones[i].zoneinfo_name = tzname},
        LAMBDA found :
    IF found = {} THEN [self |-> s0, ret |-> -1]
    ELSE
    Let(parseTimeZoneInformationFromRegistry(
            host, win32_timezones[CHOOSE i \in found : \A j \in found : i <= j].win_name),
        LAMBDA reg :
    IF reg.ret # 0 THEN [self |-> s0, ret |-> -1]
    ELSE [self |-> [s0 EXCEPT
                      !.mStandardOffset = (-(reg.tzi.Bias + reg.tzi.StandardBias)) * 60,
                      !.mDaylightOffset = (-reg.tzi.DaylightBias) * 60,
                      !.mStandardDateUtc =
                          IF (-reg.tzi.DaylightBias) * 60 # 0
                          THEN parseSystemTime(reg.tzi.DaylightDate,
                                   parseSystemTime(reg.tzi.StandardDate, @))
                          ELSE @,
                      !.mAndroidTimeZoneInit = 1],
          ret |-> 0])))

\* int TimeZone::androidTimeZoneSet(const char* tzname), win32 build
androidTimeZoneSet_win32(self, tzname, host) ==
    Let([self EXCEPT !.mTimeZoneName = tzname, !.mAndroidTimeZoneInit = 0], LAMBDA s0 :
    Let({i \in DOMAIN win32_timezones : win32_timezones[i].zoneinfo_name = tzname},
        LAMBDA found :
    IF found = {} THEN [self |-> s0, ret |-> -1]
    ELSE
    Let(parseTimeZoneInformationFromRegistry(
            host, win32_timezones[CHOOSE i \in found : \A j \in found : i <= j].win_name),
        LAMBDA reg :
    IF reg.ret # 0 THEN [self |-> s0, ret |-> -1]
    ELSE [self |-> [s0 EXCEPT
                      !.mStandardOffset = (-reg.tzi.StandardBias) * 60,
                      !.mDaylightOffset = (-reg.tzi.DaylightBias) * 60,
                      !.mStandardDateUtc =
                          IF (-reg.tzi.DaylightBias) * 60 # 0
                          THEN parseSystemTime(reg.tzi.DaylightDate,
                                   parseSystemTime(reg.tzi.StandardDate, @))
                          ELSE @,
                      !.mAndroidTimeZoneInit = 1],
          ret |-> 0])))

----------------------------------------------------------------------------
(* The validator alone: check_timezone_is_zoneinfo applied to the null      *)
(* pointer and to every string of at most MaxLen characters over Alphabet   *)

Alphabet == {"A", "b", "/"}
Strings == UNION {[1 .. n -> Alphabet] : n \in 0 .. MaxLen}

InitValidator ==
    /\ InitProcess
    /\ platform = "linux"
    /\ \E tz \in Strings \cup {NULL} : last = [NoCall EXCEPT !.name = tz]

\* check_timezone_is_zoneinfo(tz) is called with the string on record
Validate ==
    /\ last.op = "none"
    /\ last' = [last EXCEPT !.op = "check_timezone_is_zoneinfo",
                            !.ret = check_timezone_is_zoneinfo(last.name)]
    /\ UNCHANGED <<mRecording, mContainer, engineVars, staticVars, envVars, threadVars>>

NextValidator == Validate

SpecValidator == InitValidator /\ [][NextValidator]_vars

----------------------------------------------------------------------------
(* Two threads in the entry points at once: one in timezone_set, one in     *)
(* android_tzoffset_in_seconds.  No lock is taken anywhere in the file, so  *)
(* every access of a thread to a member of the instance is a step of its    *)
(* own.  Both commands behave, and the names set have daylight saving: the  *)
(* writer takes the path through setAndroidTimeZoneUsingZdump.              *)

\* the writer thread calls timezone_set at most MaxCalls times
MaxCalls == 2

ThreadNames == {NewYork, Sydney}

\* timezone_set("America/New_York") has returned 0 and no thread is in a call
InitConc ==
    \E r \in {androidTimeZoneSet(TimeZone(TimeOf(2024, 7, 15, 12, 0, 0)), NewYork,
                                 TimeOf(2024, 7, 15, 12, 0, 0), "ok", "ok")} :
        /\ constructed = TRUE
        /\ mStandardDateUtc = r.self.mStandardDateUtc
        /\ mDaylightDateUtc = r.self.mDaylightDateUtc
        /\ mStandardOffset = r.self.mStandardOffset
        /\ mDaylightOffset = r.self.mDaylightOffset
        /\ mCurrentYear = r.self.mCurrentYear
        /\ mAndroidTimeZoneInit = r.self.mAndroidTimeZoneInit
        /\ mTimeZoneName = r.self.mTimeZoneName
        /\ android_timezone0 = NewYork
        /\ android_timezone = AddressOfTimezone0
        /\ platform = "linux"
        /\ android_timezone_init = 1
        /\ mRecording = TRUE
        /\ mContainer = <<>>
        /\ clock = TimeOf(2024, 7, 15, 12, 0, 0)
        /\ crashed = FALSE
        /\ last = NoCall
        /\ writer = [NoWriter EXCEPT !.rules = {Rule(r.self)}]
        /\ reader = NoReader

\* the writer moves from pc from to pc to
WriterMoves(from, to) ==
    /\ writer.pc = from
    /\ writer' = [writer EXCEPT !.pc = to]
    /\ UNCHANGED <<mRecording, mContainer, envVars, last, reader>>

\* timezone_set(tzname) up to its call of androidTimeZoneSet; res is what
\* the call is going to write
W_timezone_set(tzname) ==
    /\ writer.pc = "idle"
    /\ writer.calls < MaxCalls
    /\ android_timezone_init' = 0
    /\ android_timezone0' = tzname
    /\ android_timezone' = "android_timezone0"
    /\ \E r \in {androidTimeZoneSet(Self, tzname, clock, "ok", "ok")} :
         writer' = [pc |-> "mTimeZoneName", calls |-> writer.calls + 1,
                    res |-> r.self, rules |-> writer.rules \cup {Rule(r.self)}]
    /\ UNCHANGED <<mRecording, mContainer, engineVars, envVars, last, reader>>

\* mTimeZoneName = std::string(tzname)
W_mTimeZoneName ==
    /\ WriterMoves("mTimeZoneName", "unresolved")
    /\ mTimeZoneName' = writer.res.mTimeZoneName
    /\ UNCHANGED <<mRecording, mContainer, constructed, mStandardDateUtc, mDaylightDateUtc, mStandardOffset,
                   mDaylightOffset, mCurrentYear, mAndroidTimeZoneInit, staticVars>>

\* this->mAndroidTimeZoneInit = 0
W_unresolved ==
    /\ WriterMoves("unresolved", "mStandardDateUtc")
    /\ mAndroidTimeZoneInit' = 0
    /\ UNCHANGED <<mRecording, mContainer, constructed, mStandardDateUtc, mDaylightDateUtc, mStandardOffset,
                   mDaylightOffset, mCurrentYear, mTimeZoneName, staticVars>>

\* parseZdumpDate(utcTokens, &mStandardDateUtc)
W_mStandardDateUtc ==
    /\ WriterMoves("mStandardDateUtc", "mDaylightDateUtc")
    /\ mStandardDateUtc' = writer.res.mStandardDateUtc
    /\ UNCHANGED <<mRecording, mContainer, constructed, mDaylightDateUtc, mStandardOffset, mDaylightOffset,
                   mCurrentYear, mAndroidTimeZoneInit, mTimeZoneName, staticVars>>

\* parseZdumpDate(utcTokens, &mDaylightDateUtc)
W_mDaylightDateUtc ==
    /\ WriterMoves("mDaylightDateUtc", "mStandardOffset")
    /\ mDaylightDateUtc' = writer.res.mDaylightDateUtc
    /\ UNCHANGED <<mRecording, mContainer, constructed, mStandardDateUtc, mStandardOffset, mDaylightOffset,
                   mCurrentYear, mAndroidTimeZoneInit, mTimeZoneName, staticVars>>

\* mStandardOffset = utcOffsetStandard
W_mStandardOffset ==
    /\ WriterMoves("mStandardOffset", "mDaylightOffset")
    /\ mStandardOffset' = writer.res.mStandardOffset
    /\ UNCHANGED <<mRecording, mContainer, constructed, mStandardDateUtc, mDaylightDateUtc, mDaylightOffset,
                   mCurrentYear, mAndroidTimeZoneInit, mTimeZoneName, staticVars>>

\* mDaylightOffset = utcOffsetDST - utcOffsetStandard
W_mDaylightOffset ==
    /\ WriterMoves("mDaylightOffset", "resolved")
    /\ mDaylightOffset' = writer.res.mDaylightOffset
    /\ UNCHANGED <<mRecording, mContainer, constructed, mStandardDateUtc, mDaylightDateUtc, mStandardOffset,
                   mCurrentYear, mAndroidTimeZoneInit, mTimeZoneName, staticVars>>

\* this->mAndroidTimeZoneInit = 1
W_resolved ==
    /\ WriterMoves("resolved", "return")
    /\ mAndroidTimeZoneInit' = 1
    /\ UNCHANGED <<mRecording, mContainer, constructed, mStandardDateUtc, mDaylightDateUtc, mStandardOffset,
                   mDaylightOffset, mCurrentYear, mTimeZoneName, staticVars>>

\* android_timezone_init = 1; return 0
W_return ==
    /\ WriterMoves("return", "idle")
    /\ android_timezone_init' = 1
    /\ UNCHANGED <<mRecording, mContainer, engineVars, android_timezone0, android_timezone>>

\* the reader moves from pc from to pc to, having read the rule members ms
ReaderMoves(from, to, ms, isdst, ret) ==
    /\ reader.pc = from
    /\ reader' = [reader EXCEPT
                     !.pc = to, !.isdst = isdst, !.ret = ret,
                     !.ms = @ \cup ms,
                     !.vals = [m \in DOMAIN @ |-> IF m \in ms THEN Rule(Self)[m] ELSE @[m]]]
    /\ UNCHANGED <<mRecording, mContainer, engineVars, staticVars, envVars, last, writer>>

\* android_tzoffset_in_seconds(&time) is called, for an instant of the
\* resolved year
R_android_tzoffset_in_seconds(time) ==
    /\ reader.pc = "idle"
    /\ YearOf(time) = mCurrentYear
    /\ reader' = [NoReader EXCEPT !.pc = "mAndroidTimeZoneInit", !.t = time]
    /\ UNCHANGED <<mRecording, mContainer, engineVars, staticVars, envVars, last, writer>>

\* if (this->mAndroidTimeZoneInit)
R_mAndroidTimeZoneInit ==
    IF mAndroidTimeZoneInit # 0
    THEN ReaderMoves("mAndroidTimeZoneInit", "mCurrentYear", {}, 0, 0)
    ELSE ReaderMoves("mAndroidTimeZoneInit", "done", {}, 0,
                     diffTime(localtime(reader.t), gmtime(reader.t)))

\* if (year != mCurrentYear): it is not
R_mCurrentYear ==
    /\ YearOf(reader.t) = mCurrentYear
    /\ ReaderMoves("mCurrentYear", "mDaylightOffset", {}, 0, 0)

\* getIsDaylightSavingTime: if (mDaylightOffset == 0) return -1
R_mDaylightOffset ==
    IF mDaylightOffset = 0
    THEN ReaderMoves("mDaylightOffset", "offsets", {"mDaylightOffset"}, -1, 0)
    ELSE ReaderMoves("mDaylightOffset", "mStandardDateUtc", {"mDaylightOffset"}, 0, 0)

\* getIsDaylightSavingTime: utcCompare(utc, mStandardDateUtc) < 0
R_mStandardDateUtc ==
    IF utcCompare(gmtime(reader.t), mStandardDateUtc) < 0
    THEN ReaderMoves("mStandardDateUtc", "offsets", {"mStandardDateUtc"}, 0, 0)
    ELSE ReaderMoves("mStandardDateUtc", "mDaylightDateUtc", {"mStandardDateUtc"}, 0, 0)

\* getIsDaylightSavingTime: utcCompare(utc, mDaylightDateUtc) >= 0
R_mDaylightDateUtc ==
    ReaderMoves("mDaylightDateUtc", "offsets", {"mDaylightDateUtc"},
                IF utcCompare(gmtime(reader.t), mDaylightDateUtc) >= 0 THEN 0 ELSE 1, 0)

\* getTimeZoneDiff: mStandardOffset, with mDaylightOffset when isdst > 0
R_offsets ==
    IF reader.isdst <= 0
    THEN ReaderMoves("offsets", "done", {"mStandardOffset"}, reader.isdst, mStandardOffset)
    ELSE ReaderMoves("offsets", "done", {"mStandardOffset", "mDaylightOffset"},
                     reader.isdst, mStandardOffset + mDaylightOffset)

\* the call returns reader.ret
R_return ==
    /\ reader.pc = "done"
    /\ reader' = NoReader
    /\ UNCHANGED <<mRecording, mContainer, engineVars, staticVars, envVars, last, writer>>

NextConc ==
    \/ \E tzname \in ThreadNames : W_timezone_set(tzname)
    \/ W_mTimeZoneName
    \/ W_unresolved
    \/ W_mStandardDateUtc
    \/ W_mDaylightDateUtc
    \/ W_mStandardOffset
    \/ W_mDaylightOffset
    \/ W_resolved
    \/ W_return
    \/ \E time \in QueryTimes : R_android_tzoffset_in_seconds(time)
    \/ R_mAndroidTimeZoneInit
    \/ R_mCurrentYear
    \/ R_mDaylightOffset
    \/ R_mStandardDateUtc
    \/ R_mDaylightDateUtc
    \/ R_offsets
    \/ R_return

SpecConc == InitConc /\ [][NextConc]_vars

----------------------------------------------------------------------------
(* The claims about the engine, under Spec *)

\* the time_t a struct tm of UTC fields denotes
TmTime(tm) ==
    TimeOf(tm.tm_year + 1900, tm.tm_mon + 1, tm.tm_mday, tm.tm_hour, tm.tm_min, tm.tm_sec)

Queries == {"android_tzoffset_in_seconds", "android_localtime"}

\* what the host's own conversion answers the call on record
HostAnswer ==
    IF last.op = "android_tzoffset_in_seconds"
    THEN ZoneOffsetAt(HostZone, last.t)
    ELSE WithIsDst(gmtime(last.t + ZoneOffsetAt(HostZone, last.t)),
                   IF ZoneIsDstAt(HostZone, last.t) THEN 1 ELSE 0)

\* C2: a call of android_tzoffset_in_seconds that leaves the engine Resolved for
\* the year of the queried instant, with a rule that has daylight saving,
\* returns mStandardOffset + mDaylightOffset for an instant strictly inside the
\* window [mStandardDateUtc, mDaylightDateUtc) and mStandardOffset for one
\* strictly outside it.  For America/New_York in 2024 the rule is -18000 and
\* +3600 with the window [2024-03-10T07:00:00Z, 2024-11-03T06:00:00Z), and the
\* call returns -14400 at 2024-07-01T00:00:00Z and -18000 at 2024-01-01T00:00:00Z.
C2_OffsetInAndOutOfWindow ==
    (/\ last.op = "android_tzoffset_in_seconds"
     /\ ~last.threw
     /\ mAndroidTimeZoneInit = 1
     /\ mCurrentYear = YearOf(last.t)
     /\ mDaylightOffset # 0)
    =>
    /\ (TmTime(mStandardDateUtc) < last.t /\ last.t < TmTime(mDaylightDateUtc))
         => last.ret = mStandardOffset + mDaylightOffset
    /\ (last.t < TmTime(mStandardDateUtc) \/ last.t > TmTime(mDaylightDateUtc))
         => last.ret = mStandardOffset
    /\ (mTimeZoneName = NewYork /\ mCurrentYear = 2024)
         => /\ mStandardOffset = -18000
            /\ mDaylightOffset = 3600
            /\ TmTime(mStandardDateUtc) = TimeOf(2024, 3, 10, 7, 0, 0)
            /\ TmTime(mDaylightDateUtc) = TimeOf(2024, 11, 3, 6, 0, 0)
            /\ last.t = TimeOf(2024, 7, 1, 0, 0, 0) => last.ret = -14400
            /\ last.t = TimeOf(2024, 1, 1, 0, 0, 0) => last.ret = -18000

\* the offset of New York at 2024-07-01T00:00:00Z has been asked of an engine
\* Resolved for New York and 2024, and -14400 returned
C2_Witness ==
    /\ last.op = "android_tzoffset_in_seconds"
    /\ ~last.threw
    /\ mAndroidTimeZoneInit = 1
    /\ mTimeZoneName = NewYork
    /\ mCurrentYear = 2024
    /\ mDaylightOffset = 3600
    /\ last.t = TimeOf(2024, 7, 1, 0, 0, 0)
    /\ last.ret = -14400

\* C3: a query (offset or local time) that finds the engine Resolved and whose
\* instant is of another UTC year than the stored one, later or earlier, makes
\* exactly one call of androidTimeZoneSet, which runs zdump for the stored zone
\* name and the instant's year, and the answer is computed from the instance
\* that call leaves; any other query makes no such call and runs no command.
C3_RolloverResolvesOnce ==
    last.op \in Queries =>
      IF last.pre.init # 0 /\ YearOf(last.t) # last.pre.year
      THEN /\ last.resolves = 1
           /\ Len(last.cmds) >= 1
           /\ last.cmds[1] = [util |-> "zdump", zone |-> last.pre.name,
                              year |-> YearOf(last.t)]
           /\ \A i \in 1 .. Len(last.cmds) : last.cmds[i].zone = last.pre.name
           /\ mCurrentYear = YearOf(last.t)
           /\ mTimeZoneName = last.pre.name
           /\ ~last.threw =>
                last.ret = IF last.op = "android_tzoffset_in_seconds"
                           THEN getTimeZoneDiff(Self, last.t)
                           ELSE WithIsDst(gmtime(last.t + getTimeZoneDiff(Self, last.t)),
                                          getIsDaylightSavingTime(Self, last.t))
      ELSE last.resolves = 0 /\ last.cmds = <<>>

\* a local-time query for an instant of 2024 has found the engine Resolved for
\* 2025 and re-resolved it for 2024
C3_Witness ==
    /\ last.op = "android_localtime"
    /\ ~last.threw
    /\ last.resolves = 1
    /\ last.pre.init = 1
    /\ last.pre.year = 2025
    /\ YearOf(last.t) = 2024
    /\ mCurrentYear = 2024
    /\ mAndroidTimeZoneInit = 1

\* C4: when android_tzoffset_in_seconds is called twice in a row with the same
\* instant and the first call finds the engine Resolved for the instant's year,
\* both calls return the same value and neither calls androidTimeZoneSet or
\* runs a command.
C4_RepeatedOffsetSameValue ==
    (/\ last.op = "android_tzoffset_in_seconds"
     /\ last.again
     /\ last.before.pre.init # 0
     /\ last.before.pre.year = YearOf(last.t))
    =>
    /\ ~last.threw
    /\ last.ret = last.before.ret
    /\ last.before.resolves = 0
    /\ last.resolves = 0
    /\ last.cmds = <<>>

\* the offset of New York at one instant of its daylight time has been asked
\* twice in a row of an engine Resolved for the instant's year
C4_Witness ==
    /\ last.op = "android_tzoffset_in_seconds"
    /\ last.again
    /\ last.before.pre.init = 1
    /\ last.before.pre.year = YearOf(last.t)
    /\ last.before.ret = -14400
    /\ last.ret = -14400

\* C5: a call of timezone_set with a name the validator rejects returns -1 and
\* leaves every member of the engine (the rule, the zone name, the resolved
\* year, the Resolved/HostFallback flag) as it was, whatever the state it finds.
C5_RejectedNameLeavesEngine ==
    [][(last'.op = "timezone_set" /\ check_timezone_is_zoneinfo(last'.name) = 0)
         => (/\ last'.ret = -1
             /\ ~last'.threw
             /\ last'.resolves = 0
             /\ UNCHANGED engineVars)]_vars

\* timezone_set("Not_A_Zone") has returned -1 to an engine that was, and is,
\* Resolved for New York
C5_Witness ==
    /\ last.op = "timezone_set"
    /\ last.name = NotAZone
    /\ last.ret = -1
    /\ last.pre.init = 1
    /\ constructed
    /\ mAndroidTimeZoneInit = 1
    /\ mTimeZoneName = NewYork

C7_FailedRolloverAnsweredByHost ==
    (/\ last.op \in Queries
     /\ last.resolves = 1
     /\ ~last.threw
     /\ mAndroidTimeZoneInit = 0)
    => last.ret = HostAnswer

\* C9, as stated: whatever the external commands do, every call of an entry
\* point returns normally.
C9_EveryCallReturns == last.op # "none" => ~last.threw

\* C10: a call of android_tzoffset_in_seconds that finds the engine in
\* HostFallback (never set, or the last resolution failed) returns the host's
\* local-minus-UTC offset at the instant, on a first call and on its
\* repetition, calls no resolver, runs no command, and leaves the engine in
\* HostFallback with every member of a constructed instance as it was.
C10_HostFallbackOffset ==
    [][(last'.op = "android_tzoffset_in_seconds" /\ Instance.mAndroidTimeZoneInit = 0)
         => (/\ ~last'.threw
             /\ last'.ret = ZoneOffsetAt(HostZone, last'.t)
             /\ last'.resolves = 0
             /\ last'.cmds = <<>>
             /\ mAndroidTimeZoneInit' = 0
             /\ constructed => UNCHANGED engineVars
             /\ UNCHANGED staticVars)]_vars

\* the offset at one instant has been asked twice in a row of an engine whose
\* resolution for New York had failed, and the host's 7200 returned both times
C10_Witness ==
    /\ last.op = "android_tzoffset_in_seconds"
    /\ last.again
    /\ last.pre.init = 0
    /\ last.pre.name = NewYork
    /\ last.before.ret = 7200
    /\ last.ret = 7200
    /\ mAndroidTimeZoneInit = 0

----------------------------------------------------------------------------
(* The claims about the validator, under SpecValidator, and about two      *)
(* threads, under SpecConc                                                  *)

\* the positions of '/' in s
Slashes(s) == {i \in 1 .. Len(s) : s[i] = "/"}

\* s has the form Area/Location or Area/Location/SubLocation with every
\* segment non-empty
IsAreaLocation(s) ==
    /\ s # NULL
    /\ Cardinality(Slashes(s)) \in {1, 2}
    /\ 1 \notin Slashes(s)
    /\ Len(s) \notin Slashes(s)
    /\ \A i \in Slashes(s) : i + 1 \notin Slashes(s)

\* C1, as stated: check_timezone_is_zoneinfo(s) returns true if and only if s
\* has the form Area/Location or Area/Location/SubLocation with every segment
\* non-empty.
C1_ValidatorIffAreaLocation ==
    last.op = "check_timezone_is_zoneinfo"
      => ((last.ret = 1) <=> IsAreaLocation(last.name))

\* C8, as stated: what a call of android_tzoffset_in_seconds running while
\* timezone_set runs has read of the rule is all of one resolution: never some
\* members as one resolution wrote them and some as another did.
C8_NoHalfUpdatedRule ==
    reader.pc = "done" =>
      \E rule \in writer.rules : \A m \in reader.ms : reader.vals[m] = rule[m]

----------------------------------------------------------------------------
(* Further claims about the engine, under Spec *)

\* a and b are the same long or int, where either may be indeterminate
SameInt(a, b) == ToString(a) = ToString(b)

\* a and b are the same instance, member by member
SameInstance(a, b) ==
    /\ \A m \in {"mStandardDateUtc", "mDaylightDateUtc"} :
         \A f \in DOMAIN IndeterminateTm : SameInt(a[m][f], b[m][f])
    /\ SameInt(a.mStandardOffset, b.mStandardOffset)
    /\ SameInt(a.mDaylightOffset, b.mDaylightOffset)
    /\ a.mCurrentYear = b.mCurrentYear
    /\ a.mAndroidTimeZoneInit = b.mAndroidTimeZoneInit
    /\ a.mTimeZoneName = b.mTimeZoneName

\* C11: android_localtime(instant) agrees with android_tzoffset_in_seconds
\* (instant) called in the same state with the same outcomes of the commands:
\* both leave the same engine, both return or neither does, and the civil time
\* returned is the UTC civil time of instant + offset.  When the call finds the
\* engine Resolved the daylight flag is the daylight status of the instant
\* under the rule; when it finds HostFallback the result is the host's
\* localtime(instant).
C11_LocaltimeAgreesWithOffset ==
    [][last'.op = "android_localtime" =>
         \E zmode \in ZdumpModes, dmode \in DateModes :
           \E o \in {androidTimeZoneOffset(Instance, last'.t, clock, zmode, dmode)} :
              /\ SameInstance(o.self, Self')
              /\ o.threw = last'.threw
              /\ ~last'.threw =>
                   /\ last'.ret =
                        WithIsDst(gmtime(last'.t + o.ret),
                                  IF Instance.mAndroidTimeZoneInit # 0
                                  THEN getIsDaylightSavingTime(o.self, last'.t)
                                  ELSE IF ZoneIsDstAt(HostZone, last'.t) THEN 1 ELSE 0)
                   /\ Instance.mAndroidTimeZoneInit = 0 =>
                        last'.ret = WithIsDst(localtime(last'.t), last'.ret.tm_isdst)]_vars

\* android_localtime has answered 2024-06-30 20:00:00, daylight time, for
\* 2024-07-01T00:00:00Z to an engine Resolved for New York
C11_Witness ==
    /\ last.op = "android_localtime"
    /\ ~last.threw
    /\ last.pre.init = 1
    /\ mTimeZoneName = NewYork
    /\ last.t = TimeOf(2024, 7, 1, 0, 0, 0)
    /\ last.ret = [tm_year |-> 124, tm_mon |-> 5, tm_mday |-> 30,
                   tm_hour |-> 20, tm_min |-> 0, tm_sec |-> 0, tm_isdst |-> 1]

\* C12, as stated: the first query made with no timezone_set before it leaves
\* the engine Resolved (for the host's zone, which zdump can resolve).
C12_FirstQueryResolvesHostZone ==
    (last.op \in Queries /\ android_timezone0 = <<>>) => mAndroidTimeZoneInit = 1

\* C12, amended: a query made when no timezone_set has yet got a name past the
\* validator, the first one included, constructs the engine in HostFallback if
\* it is not constructed, runs no discovery, no validation and no resolution
\* (no command is run, the discoverer's statics stay unset, no zone name is
\* stored), is answered by the host's own conversion and leaves the engine in
\* HostFallback.
C12_FirstQueryIsHostFallback ==
    (last.op \in Queries /\ android_timezone0 = <<>>)
    =>
    /\ ~last.threw
    /\ last.resolves = 0
    /\ last.cmds = <<>>
    /\ last.ret = HostAnswer
    /\ constructed
    /\ mAndroidTimeZoneInit = 0
    /\ mTimeZoneName = <<>>
    /\ android_timezone = NULL
    /\ android_timezone_init = 0

\* the first call of the process was android_localtime, and it was answered by
\* the host's localtime
C12_Witness ==
    /\ last.op = "android_localtime"
    /\ ~last.again
    /\ android_timezone0 = <<>>
    /\ last.pre.year = 2024
    /\ last.t = TimeOf(2024, 7, 1, 0, 0, 0)
    /\ last.ret.tm_hour = 2
    /\ last.ret.tm_isdst = 1
    /\ mAndroidTimeZoneInit = 0

\* C13, as stated: a call of timezone_set with a name the validator accepts
\* runs its resolution for the UTC year of the wall clock at the call, and on
\* success the engine is Resolved for that year and that name.
C13_SetResolvesForClockYear ==
    (last.op = "timezone_set" /\ last.resolves = 1)
    =>
    /\ last.cmds[1] = [util |-> "zdump", zone |-> last.name, year |-> YearOf(clock)]
    /\ (last.ret = 0 /\ ~last.threw)
         => /\ mAndroidTimeZoneInit = 1
            /\ mTimeZoneName = last.name
            /\ mCurrentYear = YearOf(clock)

\* C14, as stated: a query whose instant is of another year than the resolved
\* one compares the instant with transition boundaries (it does whenever the
\* rule it reads has a daylight offset) only when they come from a fresh and
\* successful resolution for the instant's year.
C14_BoundariesOfTheInstantsYear ==
    (/\ last.op \in Queries
     /\ ~last.threw
     /\ last.pre.init # 0
     /\ last.pre.year # YearOf(last.t)
     /\ mDaylightOffset # 0)
    =>
    /\ last.resolves = 1
    /\ mAndroidTimeZoneInit = 1
    /\ mStandardDateUtc.tm_year + 1900 = YearOf(last.t)
    /\ mDaylightDateUtc.tm_year + 1900 = YearOf(last.t)

\* C20, as stated: a resolution runs zdump first and date only if zdump
\* failed; a rule that date established has daylight offset 0; and the
\* resolution fails (the engine is left in HostFallback) only if both zdump
\* and date were run and failed.
C20_ZdumpThenDate ==
    (last.op # "none" /\ last.resolves = 1)
    =>
    /\ Len(last.cmds) \in {1, 2}
    /\ last.cmds[1].util = "zdump"
    /\ Len(last.cmds) = 2 => last.cmds[2].util = "date"
    /\ (Len(last.cmds) = 2 /\ mAndroidTimeZoneInit = 1) => mDaylightOffset = 0
    /\ mAndroidTimeZoneInit = 0 => Len(last.cmds) = 2

----------------------------------------------------------------------------
(* The byte comparison alone: compare_timezone_to_localtime applied to a    *)
(* reference file and a candidate of at most MaxSize bytes each, the        *)
(* candidate being a file that opens, one that does not, or no file.        *)

\* the longest file compared
MaxSize == 3
\* the contents a file may have: at most MaxSize bytes, each 0 or 1
FileData == UNION {[1 .. n -> {0, 1}] : n \in 0 .. MaxSize}

\* the candidate compared: a name below the zoneinfo root
CandidatePath == ZONEINFO_DIR \o Berlin

InitCompare ==
    /\ InitProcess
    /\ platform = "linux"
    /\ \E fs \in {(LOCALTIME_FILE1 :> File(ref, TRUE))
                      @@ (CandidatePath :> File(cand, readable)) :
                   ref \in FileData, cand \in FileData, readable \in BOOLEAN}
               \cup {(LOCALTIME_FILE1 :> File(ref, TRUE)) : ref \in FileData} :
           last = [op |-> "none", fs |-> fs]

\* compare_timezone_to_localtime(scan, path) is called on the files on record
Compare ==
    /\ last.op = "none"
    /\ \E r \in {compare_timezone_to_localtime(last.fs,
                       ScanData(last.fs, LOCALTIME_FILE1, ZONEINFO_DIR), CandidatePath)} :
           last' = [op |-> "compare_timezone_to_localtime", fs |-> last.fs,
                    result |-> r.result, opens |-> r.opens, reads |-> r.reads]
    /\ UNCHANGED <<mRecording, mContainer, engineVars, staticVars, envVars, threadVars>>

SpecCompare == InitCompare /\ [][Compare]_vars

\* C17: the byte comparison reports a match only for a candidate of the
\* reference file's size whose every byte equals the reference's; it reports
\* one for every such candidate that opens; and a candidate of another size
\* is rejected with no file opened and no byte read.
C17_MatchIsSameSizeSameBytes ==
    last.op = "compare_timezone_to_localtime" =>
        /\ last.result = 1 =>
               /\ CandidatePath \in DOMAIN last.fs
               /\ Len(last.fs[CandidatePath].data) = Len(last.fs[LOCALTIME_FILE1].data)
               /\ \A i \in 1 .. Len(last.fs[LOCALTIME_FILE1].data) : last.fs[CandidatePath].data[i] = last.fs[LOCALTIME_FILE1].data[i]
        /\ (CandidatePath \in DOMAIN last.fs /\ last.fs[CandidatePath].readable
                /\ last.fs[CandidatePath].data = last.fs[LOCALTIME_FILE1].data) => last.result = 1
        /\ (CandidatePath \in DOMAIN last.fs /\ Len(last.fs[CandidatePath].data) # Len(last.fs[LOCALTIME_FILE1].data)) =>
               last.result = 0 /\ last.opens = 0 /\ last.reads = 0

\* a candidate of the reference's three bytes but for the last one was
\* compared, read to that byte, and did not match
C17_Witness ==
    /\ last.op = "compare_timezone_to_localtime"
    /\ last.fs[LOCALTIME_FILE1].data = <<1, 0, 1>>
    /\ CandidatePath \in DOMAIN last.fs
    /\ last.fs[CandidatePath].data = <<1, 0, 0>>
    /\ last.result = 0
    /\ last.reads = 6

----------------------------------------------------------------------------
(* The host-dependent code on its three builds: the discoverer behind       *)
(* bufprint_zoneinfo_timezone on hosts that differ in TZ, TZDIR, the files  *)
(* of the zoneinfo roots and /etc/localtime, or in the zone name Windows    *)
(* reports; and, on the win32 build, timezone_set resolving from the        *)
(* registry.  Each entry point is called at most twice in a run.            *)

\* a zoneinfo tree at root: the entries of each directory in readdir order,
\* after those of extra; readable is whether the root itself can be read.
\* Next to the zone files it has a hidden directory and a hidden file, a link
\* to a directory and a link to a zone file, a file three levels down, and two
\* zone files of the same bytes.
ZoneinfoTree(root, readable, extra) ==
    (root :> Dir(<<<<".">>, <<".", ".">>>> \o extra
                 \o <<<<".", "h", "i", "d", "d", "e", "n">>, <<"U", "T", "C">>, <<"p", "o", "s", "i", "x">>,
                      <<"A", "m", "e", "r", "i", "c", "a">>, <<"E", "u", "r", "o", "p", "e">>>>, readable))
    @@ (root \o <<"/", ".", "h", "i", "d", "d", "e", "n">> :> Dir(<<<<"Z", "o", "n", "e">>>>, TRUE))
    @@ (root \o <<"/", ".", "h", "i", "d", "d", "e", "n", "/", "Z", "o", "n", "e">> :> File(<<1, 1, 0>>, TRUE))
    @@ (root \o <<"/", "U", "T", "C">> :> File(<<0>>, TRUE))
    @@ (root \o <<"/", "p", "o", "s", "i", "x">> :> Link(<<"E", "u", "r", "o", "p", "e">>, root \o <<"/", "E", "u", "r", "o", "p", "e">>))
    @@ (root \o <<"/", "A", "m", "e", "r", "i", "c", "a">> :> Dir(<<<<".", "c", "a", "c", "h", "e">>, <<"K", "n", "o", "x", "_", "I", "N">>,
                    <<"N", "e", "w", "_", "Y", "o", "r", "k">>, <<"I", "n", "d", "i", "a", "n", "a">>>>, TRUE))
    @@ (root \o <<"/", "A", "m", "e", "r", "i", "c", "a", "/", ".", "c", "a", "c", "h", "e">> :> File(<<1, 0, 1>>, TRUE))
    @@ (root \o <<"/", "A", "m", "e", "r", "i", "c", "a", "/", "K", "n", "o", "x", "_", "I", "N">> :> Link(<<"I", "n", "d", "i", "a", "n", "a", "/", "K", "n", "o", "x">>, root \o <<"/", "A", "m", "e", "r", "i", "c", "a", "/", "I", "n", "d", "i", "a", "n", "a", "/", "K", "n", "o", "x">>))
    @@ (root \o <<"/", "A", "m", "e", "r", "i", "c", "a", "/", "N", "e", "w", "_", "Y", "o", "r", "k">> :> File(<<1, 0, 1>>, TRUE))
    @@ (root \o <<"/", "A", "m", "e", "r", "i", "c", "a", "/", "I", "n", "d", "i", "a", "n", "a">> :> Dir(<<<<"D", "e", "e", "p">>, <<"K", "n", "o", "x">>>>, TRUE))
    @@ (root \o <<"/", "A", "m", "e", "r", "i", "c", "a", "/", "I", "n", "d", "i", "a", "n", "a", "/", "D", "e", "e", "p">> :> Dir(<<<<"Z", "o", "n", "e">>>>, TRUE))
    @@ (root \o <<"/", "A", "m", "e", "r", "i", "c", "a", "/", "I", "n", "d", "i", "a", "n", "a", "/", "D", "e", "e", "p", "/", "Z", "o", "n", "e">> :> File(<<0, 1, 1>>, TRUE))
    @@ (root \o <<"/", "A", "m", "e", "r", "i", "c", "a", "/", "I", "n", "d", "i", "a", "n", "a", "/", "K", "n", "o", "x">> :> File(<<1, 1>>, TRUE))
    @@ (root \o <<"/", "E", "u", "r", "o", "p", "e">> :> Dir(<<<<"B", "e", "r", "l", "i", "n">>, <<"B", "u", "s", "i", "n", "g", "e", "n">>>>, TRUE))
    @@ (root \o <<"/", "E", "u", "r", "o", "p", "e", "/", "B", "e", "r", "l", "i", "n">> :> File(<<1, 1, 0>>, TRUE))
    @@ (root \o <<"/", "E", "u", "r", "o", "p", "e", "/", "B", "u", "s", "i", "n", "g", "e", "n">> :> File(<<1, 1, 0>>, TRUE))

\* a second zoneinfo root, for TZDIR, with a localtime file of its own
AltRoot == <<"/", "o", "p", "t", "/", "z", "i">>

\* the hosts of a build.  TZ and TZDIR are what getenv returns; tzname,
\* localtime_ok and registry are read by the win32 build only.
Hosts(build) ==
    CASE build = "linux" ->
           {[TZ |-> tz, TZDIR |-> tzdir, tzname |-> "", localtime_ok |-> TRUE,
             registry |-> "ok",
             fs |-> ZoneinfoTree(StripSlash(ZONEINFO_DIR), readable, <<>>)
                    @@ ZoneinfoTree(AltRoot, TRUE, <<<<"l", "o", "c", "a", "l", "t", "i", "m", "e">>>>)
                    @@ (AltRoot \o <<"/", "l", "o", "c", "a", "l", "t", "i", "m", "e">> :> File(<<1, 1, 0>>, TRUE))
                    @@ file] :
              tz \in {NULL, NewYork, <<"U", "T", "C">>},
              tzdir \in {NULL, AltRoot, <<"/", "n", "o", "n", "e", "x", "i", "s", "t", "e", "n", "t">>},
              readable \in BOOLEAN,
              file \in {LOCALTIME_FILE1 :> File(<<1, 1, 0>>, TRUE),
                        LOCALTIME_FILE1 :> File(<<1, 1>>, TRUE),
                        LOCALTIME_FILE1 :> File(<<0, 1, 1>>, TRUE),
                        LOCALTIME_FILE1 :> File(<<1, 0, 1>>, TRUE),
                        LOCALTIME_FILE1 :> Link(ZONEINFO_DIR \o Berlin, ZONEINFO_DIR \o Berlin),
                        LOCALTIME_FILE1 :> Link(<<".", ".", "/", "u", "s", "r", "/", "s", "h", "a", "r", "e", "/", "z", "o", "n", "e", "i", "n", "f", "o", "/">> \o Berlin,
                                                ZONEINFO_DIR \o Berlin),
                        LOCALTIME_FILE1 :> Link(ZONEINFO_DIR \o <<"U", "T", "C">>,
                                                ZONEINFO_DIR \o <<"U", "T", "C">>),
                        LOCALTIME_FILE1 :> Link(AltRoot \o <<"/">> \o NewYork,
                                                AltRoot \o <<"/">> \o NewYork),
                        <<>>}}
      [] build = "apple" ->
           {[TZ |-> tz, TZDIR |-> NULL, tzname |-> "", localtime_ok |-> TRUE,
             registry |-> "ok", fs |-> file] :
              tz \in {NULL, NewYork, <<"U", "T", "C">>},
              file \in {LOCALTIME_FILE1 :> Link(ZONEINFO_DIR \o Berlin, ZONEINFO_DIR \o Berlin),
                        LOCALTIME_FILE1 :> Link(ZONEINFO_DIR \o <<"U", "T", "C">>,
                                                ZONEINFO_DIR \o <<"U", "T", "C">>),
                        LOCALTIME_FILE1 :> Link(<<"/", "v", "a", "r", "/", "d", "b", "/", "t", "i", "m", "e", "z", "o", "n", "e", "/", "z", "o", "n", "e", "i", "n", "f", "o", "/">> \o Berlin,
                                                <<"/", "v", "a", "r", "/", "d", "b", "/", "t", "i", "m", "e", "z", "o", "n", "e", "/", "z", "o", "n", "e", "i", "n", "f", "o", "/">> \o Berlin),
                        LOCALTIME_FILE1 :> File(<<1, 1, 0>>, TRUE),
                        <<>>}}
      [] build = "win32" ->
           {[TZ |-> NULL, TZDIR |-> NULL, tzname |-> tzname, localtime_ok |-> ok,
             registry |-> registry, fs |-> <<>>] :
              tzname \in {"Pacific Standard Time", "Pacific Daylight Time",
                          "AUS Eastern Standard Time", "W. Europe Standard Time",
                          "Mitteleuropaeische Zeit", ""},
              ok \in BOOLEAN,
              registry \in {"ok", "RegOpenKeyEx fails", "RegQueryValueEx fails"}}

\* the entry points are called at most MaxHostCalls times in a run
MaxHostCalls == 3

InitHost ==
    /\ InitProcess
    /\ platform \in {"linux", "apple", "win32"}
    /\ \E host \in Hosts(platform) : last = [op |-> "none", host |-> host, n |-> 0]

\* a bufprint_zoneinfo_timezone that prints any tz that is not NULL
bufprint_zoneinfo_timezone_unvalidated ==
    /\ ~crashed
    /\ last.n < MaxHostCalls
    /\ \E r \in {get_zoneinfo_timezone(last.host,
                     [android_timezone0 |-> android_timezone0,
                      android_timezone |-> android_timezone,
                      android_timezone_init |-> android_timezone_init])} :
          /\ android_timezone0' = r.android_timezone0
          /\ android_timezone' = r.android_timezone
          /\ android_timezone_init' = r.android_timezone_init
          /\ last' = [op |-> "bufprint_zoneinfo_timezone", host |-> last.host,
                      n |-> last.n + 1, name |-> NULL, ret |-> r.ret,
                      text |-> IF r.ret = NULL
                               THEN <<"U", "n", "k", "n", "o", "w", "n", "/", "U", "n", "k", "n", "o", "w", "n">> ELSE r.ret,
                      calls |-> r.calls,
                      pre |-> [android_timezone0 |-> android_timezone0,
                               android_timezone |-> android_timezone,
                               android_timezone_init |-> android_timezone_init],
                      set |-> IF last.op = "timezone_set"
                              THEN [name |-> last.name, ret |-> last.ret]
                              ELSE IF last.op = "none" THEN [name |-> NULL, ret |-> 0]
                              ELSE last.set,
                      prev |-> IF last.op = "bufprint_zoneinfo_timezone"
                               THEN last.text ELSE NULL]
    /\ UNCHANGED <<mRecording, mContainer, engineVars, envVars, threadVars>>

\* char* bufprint_zoneinfo_timezone(char* p, char* end), with room for the
\* text between p and end.  The record keeps the host, the number of calls
\* made (n), what get_zoneinfo_timezone returned (ret), the text printed,
\* the system calls made and the three statics as found (pre); and, of the
\* calls before it, the name given to the latest timezone_set with what it
\* returned (set, NULL for none) and the text printed by the call before if
\* that was a bufprint_zoneinfo_timezone too (prev, NULL otherwise).
bufprint_zoneinfo_timezone ==
    /\ ~crashed
    /\ last.n < MaxHostCalls
    /\ \E r \in {get_zoneinfo_timezone(last.host,
                     [android_timezone0 |-> android_timezone0,
                      android_timezone |-> android_timezone,
                      android_timezone_init |-> android_timezone_init])} :
          /\ android_timezone0' = r.android_timezone0
          /\ android_timezone' = r.android_timezone
          /\ android_timezone_init' = r.android_timezone_init
          /\ last' = [op |-> "bufprint_zoneinfo_timezone", host |-> last.host,
                      n |-> last.n + 1, name |-> NULL, ret |-> r.ret,
                      text |-> IF r.ret = NULL \/ check_timezone_is_zoneinfo(r.ret) = 0
                               THEN <<"U", "n", "k", "n", "o", "w", "n", "/", "U", "n", "k", "n", "o", "w", "n">> ELSE r.ret,
                      calls |-> r.calls,
                      pre |-> [android_timezone0 |-> android_timezone0,
                               android_timezone |-> android_timezone,
                               android_timezone_init |-> android_timezone_init],
                      set |-> IF last.op = "timezone_set"
                              THEN [name |-> last.name, ret |-> last.ret]
                              ELSE IF last.op = "none" THEN [name |-> NULL, ret |-> 0]
                              ELSE last.set,
                      prev |-> IF last.op = "bufprint_zoneinfo_timezone"
                               THEN last.text ELSE NULL]
    /\ UNCHANGED <<mRecording, mContainer, engineVars, envVars, threadVars>>

\* int timezone_set(const char* tzname), linux and apple builds, with the
\* outcomes zmode and dmode of the commands androidTimeZoneSet runs
timezone_set_posix(tzname, zmode, dmode) ==
    /\ platform # "win32"
    /\ ~crashed
    /\ last.n < MaxHostCalls
    /\ IF check_timezone_is_zoneinfo(tzname) = 0 \/ Len(tzname) > AndroidTimezone0Size - 1
       THEN /\ android_timezone_init' = 0
            /\ last' = [op |-> "timezone_set", host |-> last.host, n |-> last.n + 1,
                        name |-> tzname, ret |-> -1, text |-> <<>>, calls |-> <<>>,
                        pre |-> Pre(Instance)]
            /\ UNCHANGED <<mRecording, mContainer, engineVars, android_timezone0, android_timezone, crashed>>
       ELSE \E r \in {androidTimeZoneSetOn(Instance, tzname, clock, zmode, dmode)} :
            /\ android_timezone0' = tzname
            /\ android_timezone' = AddressOfTimezone0
            /\ android_timezone_init' = IF ~r.threw /\ r.ret = 0 THEN 1 ELSE 0
            /\ SetInstance(r.self)
            /\ crashed' = r.threw
            /\ last' = [op |-> "timezone_set", host |-> last.host, n |-> last.n + 1,
                        name |-> tzname, ret |-> IF r.ret # 0 THEN -1 ELSE 0,
                        text |-> <<>>, calls |-> <<>>, pre |-> Pre(Instance)]
    /\ UNCHANGED <<mRecording, mContainer, clock, platform, threadVars>>

\* int timezone_set(const char* tzname), win32 build
timezone_set_win32(tzname) ==
    /\ platform = "win32"
    /\ last.n < MaxHostCalls
    /\ IF check_timezone_is_zoneinfo(tzname) = 0 \/ Len(tzname) > AndroidTimezone0Size - 1
       THEN /\ android_timezone_init' = 0
            /\ last' = [op |-> "timezone_set", host |-> last.host, n |-> last.n + 1,
                        name |-> tzname, ret |-> -1, text |-> <<>>, calls |-> <<>>,
                        pre |-> Pre(Instance)]
            /\ UNCHANGED <<mRecording, mContainer, engineVars, android_timezone0, android_timezone>>
       ELSE \E r \in {androidTimeZoneSet_win32(Instance, tzname, last.host)} :
            /\ android_timezone0' = tzname
            /\ android_timezone' = AddressOfTimezone0
            /\ android_timezone_init' = IF r.ret = 0 THEN 1 ELSE 0
            /\ SetInstance(r.self)
            /\ last' = [op |-> "timezone_set", host |-> last.host, n |-> last.n + 1,
                        name |-> tzname, ret |-> IF r.ret # 0 THEN -1 ELSE 0,
                        text |-> <<>>, calls |-> <<>>, pre |-> Pre(Instance)]
    /\ UNCHANGED <<mRecording, mContainer, envVars, threadVars>>

SpecHost ==
    InitHost /\ [][\/ bufprint_zoneinfo_timezone
                  \/ \E tzname \in {win32_timezones[i].zoneinfo_name : i \in {6, 7, 10, 11}}
                                    \cup {NewYork, NotAZone, NULL} :
                        timezone_set_win32(tzname)
                  \/ \E zone \in {NewYork, NotAZone} :
                        timezone_set_posix(zone, "ok", "ok")]_vars

\* Runs of bufprint_zoneinfo_timezone and timezone_set on the hosts with no
\* TZDIR, a working localtime() and a readable registry, where the commands
\* of a resolution may fail.
InitReport ==
    /\ InitProcess
    /\ platform \in {"linux", "apple", "win32"}
    /\ \E host \in {h \in Hosts(platform) :
                        h.TZDIR = NULL /\ h.localtime_ok /\ h.registry = "ok"} :
          last = [op |-> "none", host |-> host, n |-> 0]

SpecReport ==
    InitReport /\ [][\/ bufprint_zoneinfo_timezone
                    \/ \E tzname \in {win32_timezones[i].zoneinfo_name : i \in {6, 7, 10, 11}}
                                      \cup {NewYork, NotAZone, NULL} :
                          timezone_set_win32(tzname)
                    \/ \E zone \in {NewYork, HostZone, NotAZone, NULL} :
                          \E zmode \in {"ok", "notrun"} :
                            \E dmode \in IF check_timezone_is_zoneinfo(zone) = 1
                                         THEN DateModesWhen(Instance, zone, TRUE, zmode)
                                         ELSE {"ok"} :
                               timezone_set_posix(zone, zmode, dmode)]_vars

\* C15: on a Unix-like build, the first discovery returns TZ having made no
\* system call on the file system exactly when TZ is set and passes the
\* validator; with a TZ that fails the validator it goes on to the files.
C15_TZUsedIffValid ==
    (last.op = "bufprint_zoneinfo_timezone" /\ last.n = 1
        /\ platform \in {"linux", "apple"}) =>
        /\ (last.host.TZ # NULL /\ last.ret = last.host.TZ /\ last.calls = <<>>)
              <=> (last.host.TZ # NULL /\ check_timezone_is_zoneinfo(last.host.TZ) = 1)
        /\ (last.host.TZ # NULL /\ check_timezone_is_zoneinfo(last.host.TZ) = 0)
              => last.calls # <<>>

\* C16: on the linux build, with no usable TZ and a TZDIR that cannot be
\* read, the first discovery returns what it returns on the same host with
\* TZDIR unset, that is, with the default root.
C16_UnreadableTZDIRFallsBackToDefaultRoot ==
    (last.op = "bufprint_zoneinfo_timezone" /\ last.n = 1 /\ platform = "linux"
        /\ check_timezone_is_zoneinfo(last.host.TZ) = 0
        /\ last.host.TZDIR # NULL
        /\ ~access_R_OK(last.host.fs, StripSlash(last.host.TZDIR))) =>
        last.ret = get_zoneinfo_timezone_linux([last.host EXCEPT !.TZDIR = NULL],
                                               last.pre).ret

\* C18: on the win32 build, a discovery that obtains the host's zone name
\* returns the zoneinfo name of the first row of the table with that host
\* name ("America/Los_Angeles" for "Pacific Standard Time") and leaves
\* android_timezone pointing to it, and returns NULL, printing
\* "Unknown/Unknown", when no row has that host name.
C18_FirstRowOfHostName ==
    (last.op = "bufprint_zoneinfo_timezone" /\ platform = "win32"
        /\ last.pre.android_timezone_init = 0 /\ last.host.localtime_ok) =>
        /\ \A i \in DOMAIN win32_timezones :
              (/\ win32_timezones[i].win_name = last.host.tzname
               /\ \A j \in 1 .. i - 1 : win32_timezones[j].win_name # last.host.tzname)
              => /\ last.ret = win32_timezones[i].zoneinfo_name
                 /\ android_timezone = RowPointer(i)
        /\ last.host.tzname = "Pacific Standard Time"
              => last.ret = <<"A", "m", "e", "r", "i", "c", "a", "/", "L", "o", "s", "_", "A", "n", "g", "e", "l", "e", "s">>
        /\ (\A i \in DOMAIN win32_timezones :
                win32_timezones[i].win_name # last.host.tzname)
              => /\ last.ret = NULL
                 /\ last.text = <<"U", "n", "k", "n", "o", "w", "n", "/", "U", "n", "k", "n", "o", "w", "n">>
                 /\ android_timezone = last.pre.android_timezone

\* a first discovery on a host reporting "Pacific Standard Time" printed
\* "America/Los_Angeles"
C18_Witness ==
    /\ last.op = "bufprint_zoneinfo_timezone"
    /\ platform = "win32"
    /\ last.n = 1
    /\ last.host.tzname = "Pacific Standard Time"
    /\ last.host.localtime_ok
    /\ last.ret = <<"A", "m", "e", "r", "i", "c", "a", "/", "L", "o", "s", "_", "A", "n", "g", "e", "l", "e", "s">>
    /\ last.text = <<"A", "m", "e", "r", "i", "c", "a", "/", "L", "o", "s", "_", "A", "n", "g", "e", "l", "e", "s">>
    /\ android_timezone_init = 1

\* C19: on the win32 build, after timezone_set has resolved a zone with a
\* daylight offset from the registry, the standard date is the record's
\* StandardDate and the daylight date the record's DaylightDate.
C19_BothDatesCaptured ==
    (last.op = "timezone_set" /\ platform = "win32" /\ last.ret = 0
        /\ mDaylightOffset # 0) =>
        \E i \in DOMAIN win32_timezones :
            /\ win32_timezones[i].zoneinfo_name = last.name
            /\ \A j \in 1 .. i - 1 : win32_timezones[j].zoneinfo_name # last.name
            /\ \E tzi \in {RegistryTZI[win32_timezones[i].win_name]} :
                 \A f \in {"tm_year", "tm_mon", "tm_mday", "tm_hour", "tm_min", "tm_sec"} :
                    /\ SameInt(mStandardDateUtc[f],
                               parseSystemTime(tzi.StandardDate, IndeterminateTm)[f])
                    /\ SameInt(mDaylightDateUtc[f],
                               parseSystemTime(tzi.DaylightDate, IndeterminateTm)[f])

----------------------------------------------------------------------------
(* Claims about the two resolvers and the daylight test, under Spec *)

\* C21: a call that runs androidTimeZoneSet and returns leaves the two
\* offsets and the two dates either all as it found them, the resolution
\* having failed, or all as a resolution of the name and year writes them in
\* a newly constructed instance, the resolution having succeeded.
C21_RuleReplacedWholesale ==
    [][(last'.op # "none" /\ last'.resolves = 1 /\ ~last'.threw) =>
          IF mAndroidTimeZoneInit' = 0
          THEN SameInstance(Self', [Instance EXCEPT
                                      !.mCurrentYear = mCurrentYear',
                                      !.mAndroidTimeZoneInit = mAndroidTimeZoneInit',
                                      !.mTimeZoneName = mTimeZoneName'])
          ELSE \E zmode \in ZdumpModes, dmode \in DateModes :
                 SameInstance(Self',
                     androidTimeZoneSet([TimeZone(clock) EXCEPT !.mCurrentYear = mCurrentYear'],
                                        mTimeZoneName', clock, zmode, dmode).self)]_vars

C23_RuleIsSecondAndFourthLine ==
    (/\ last.op = "timezone_set" /\ last.resolves = 1 /\ ~last.threw
     /\ last.ret = 0 /\ Len(last.cmds) = 1) =>
        \E r \in {ZoneRule(mTimeZoneName, mCurrentYear)} :
          \E out \in {ZdumpOutput(mTimeZoneName, mCurrentYear)} :
            /\ Len(out) = 4
            /\ out[2] = ZdumpLine(mTimeZoneName, r.first, r.offFirst, r.offFirst > r.offSecond)
            /\ out[4] = ZdumpLine(mTimeZoneName, r.second, r.offSecond, r.offSecond > r.offFirst)
            /\ SameInt(mStandardOffset, r.offSecond)
            /\ SameInt(mDaylightOffset, r.offFirst - r.offSecond)
            /\ ToString(mStandardDateUtc) = ToString(gmtime(r.first))
            /\ ToString(mDaylightDateUtc) = ToString(gmtime(r.second))

\* Sydney resolved by zdump: 11 h from October on, 10 h from April on, and the
\* first boundary falling on the UTC day before the local one
C23_Witness ==
    /\ last.op = "timezone_set" /\ last.resolves = 1 /\ ~last.threw
    /\ last.ret = 0 /\ Len(last.cmds) = 1
    /\ mTimeZoneName = Sydney
    /\ SameInt(mStandardOffset, 39600)
    /\ SameInt(mDaylightOffset, -3600)
    /\ SameInt(mStandardDateUtc.tm_mon, 3)
    /\ SameInt(mStandardDateUtc.tm_hour, 16)
    /\ SameInt(mDaylightDateUtc.tm_mon, 9)


----------------------------------------------------------------------------
(* diffTime alone: applied to the civil dates of a UTC instant and of the   *)
(* instant an offset of less than a day away from it, the instants lying    *)
(* around the turn of a year, of February, of a 30-day month, and at noon.  *)

InitDiff ==
    /\ InitProcess
    /\ platform = "linux"
    /\ \E y \in Years :
       \E anchor \in {TimeOf(y, 1, 1, 0, 0, 0), TimeOf(y, 3, 1, 0, 0, 0),
                      TimeOf(y, 7, 1, 0, 0, 0), TimeOf(y, 7, 15, 12, 0, 0)} :
       \E e \in {-1, 0, 43200} :
       \E d \in {-(kSecondsPerDay - 1), -43201, -3600, -1, 0, 1, 19800, 50400,
                 kSecondsPerDay - 1} :
           last = [op |-> "none", u |-> anchor + e, d |-> d]

\* diffTime(end, beginning) is called on the local and the UTC date on record
ApplyDiffTime ==
    /\ last.op = "none"
    /\ last' = [op |-> "diffTime", u |-> last.u, d |-> last.d,
                ret |-> diffTime(gmtime(last.u + last.d), gmtime(last.u))]
    /\ UNCHANGED <<mRecording, mContainer, engineVars, staticVars, envVars, threadVars>>

\* utcCompare(utc1, utc2) is called on the same two dates
ApplyUtcCompare ==
    /\ last.op = "none"
    /\ last' = [op |-> "utcCompare", u |-> last.u, d |-> last.d,
                ret |-> utcCompare(gmtime(last.u + last.d), gmtime(last.u))]
    /\ UNCHANGED <<mRecording, mContainer, engineVars, staticVars, envVars, threadVars>>

SpecDiff == InitDiff /\ [][ApplyDiffTime \/ ApplyUtcCompare]_vars

\* C24: diffTime of the civil date of u + d and the civil date of u is d, for
\* every offset d of less than a day either way, whether or not the two dates
\* fall on the same day, in the same month or in the same year.
C24_DiffTimeIsTheOffset ==
    last.op = "diffTime" =>
        /\ last.d > -kSecondsPerDay /\ last.d < kSecondsPerDay
        /\ last.ret = last.d

\* an offset that takes the local date into the next year
C24_Witness ==
    /\ last.op = "diffTime"
    /\ gmtime(last.u).tm_mon = 11 /\ gmtime(last.u).tm_mday = 31
    /\ gmtime(last.u + last.d).tm_year = gmtime(last.u).tm_year + 1
    /\ last.d = 50400
    /\ last.ret = 50400


\* C25: a timezone_set that date's strategy resolved leaves mDaylightOffset at
\* 0 and mStandardOffset at the hours and minutes date printed, in seconds,
\* positive for a leading '+' and negative otherwise; given any output sHHMM
\* the strategy stores that offset, negative for every s but '+', and writes
\* neither boundary; and no query of the resolved year reads a boundary: it
\* is answered alike with both boundaries indeterminate.
C25_DateStoresSignedFixedOffset ==
    (/\ last.op = "timezone_set" /\ last.resolves = 1 /\ ~last.threw
     /\ last.ret = 0 /\ Len(last.cmds) = 2) =>
        /\ mAndroidTimeZoneInit = 1
        /\ mDaylightOffset = 0
        /\ \E out \in {DateOutput(mTimeZoneName, clock)} :
              mStandardOffset = (IF out[1] = "+" THEN 1 ELSE -1)
                                  * (stoi(SubSeq(out, 2, 3)).v * 3600
                                       + stoi(SubSeq(out, 4, 5)).v * 60)
        /\ mStandardOffset = ZoneOffsetAt(mTimeZoneName, clock)
        /\ \A s \in {"+", "-", "?"} : \A hh \in {0, 5, 14} : \A mm \in {0, 30} :
             \E d \in {setAndroidTimeZoneUsingDate(Self,
                          [temp |-> TRUE, ran |-> TRUE, exitCode |-> 0,
                           lines |-> << <<s>> \o Fmt2(hh) \o Fmt2(mm) >>])} :
                /\ ~d.threw /\ d.ret = 0
                /\ d.self.mDaylightOffset = 0
                /\ d.self.mStandardOffset =
                      IF s = "+" THEN hh * 3600 + mm * 60 ELSE -(hh * 3600 + mm * 60)
                /\ ToString(d.self.mStandardDateUtc) = ToString(mStandardDateUtc)
                /\ ToString(d.self.mDaylightDateUtc) = ToString(mDaylightDateUtc)
        /\ \E blind \in {[Self EXCEPT !.mStandardDateUtc = IndeterminateTm,
                                      !.mDaylightDateUtc = IndeterminateTm]} :
             \A t \in {q \in QueryTimes : YearOf(q) = mCurrentYear} :
                /\ getIsDaylightSavingTime(blind, t) = -1
                /\ getTimeZoneDiff(blind, t) = mStandardOffset
                /\ \A zmode \in ZdumpModes, dmode \in DateModes :
                     /\ androidTimeZoneOffset(blind, t, clock, zmode, dmode).ret
                            = androidTimeZoneOffset(Self, t, clock, zmode, dmode).ret
                     /\ androidLocaltime(blind, t, clock, zmode, dmode).ret
                            = androidLocaltime(Self, t, clock, zmode, dmode).ret

\* New York resolved by date in July, zdump having failed: "-0400"
C25_Witness ==
    /\ last.op = "timezone_set" /\ last.resolves = 1 /\ ~last.threw
    /\ last.ret = 0 /\ Len(last.cmds) = 2
    /\ mTimeZoneName = NewYork
    /\ DateOutput(mTimeZoneName, clock) = <<"-", "0", "4", "0", "0">>
    /\ SameInt(mStandardOffset, -14400)
    /\ SameInt(mDaylightOffset, 0)


\* C26: a query that finds the engine resolved with a daylight offset of 0,
\* for an instant of the resolved year, resolves nothing and leaves the
\* instance as it is; android_tzoffset_in_seconds returns the standard
\* offset and android_localtime the civil date at that offset with the flag
\* -1; the status is -1 at every instant, and it and the offset come out the
\* same with both boundaries indeterminate: neither is read.
C26_NoDaylightOffsetMeansNotApplicable ==
    [][(/\ last'.op \in {"android_tzoffset_in_seconds", "android_localtime"}
        /\ Instance.mAndroidTimeZoneInit = 1
        /\ SameInt(Instance.mDaylightOffset, 0)
        /\ YearOf(last'.t) = Instance.mCurrentYear) =>
          /\ ~last'.threw /\ last'.resolves = 0
          /\ SameInstance(Self', Instance)
          /\ \A t \in QueryTimes : getIsDaylightSavingTime(Instance, t) = -1
          /\ \E blind \in {[Instance EXCEPT !.mStandardDateUtc = IndeterminateTm,
                                            !.mDaylightDateUtc = IndeterminateTm]} :
               \A t \in QueryTimes :
                  /\ getIsDaylightSavingTime(blind, t) = -1
                  /\ getTimeZoneDiff(blind, t) = Instance.mStandardOffset
          /\ last'.op = "android_tzoffset_in_seconds" =>
                last'.ret = Instance.mStandardOffset
          /\ last'.op = "android_localtime" =>
                /\ last'.ret.tm_isdst = -1
                /\ last'.ret = WithIsDst(gmtime(last'.t + Instance.mStandardOffset), -1)]_vars

\* New York resolved by date, asked for the local time at the instant its
\* daylight saving begins: 02:00 at -0400 with the flag -1
C26_Witness ==
    /\ last.op = "android_localtime"
    /\ last.pre.init = 1 /\ last.resolves = 0 /\ ~last.threw
    /\ mTimeZoneName = NewYork
    /\ SameInt(mDaylightOffset, 0)
    /\ SameInt(mStandardOffset, -14400)
    /\ last.t = ZoneRule(NewYork, mCurrentYear).first
    /\ last.ret.tm_isdst = -1
    /\ last.ret.tm_hour = 3


\* C27: a query that finds the engine resolved with a daylight offset other
\* than 0, for an instant of the resolved year: at the first stored boundary
\* the offset is standard + daylight and the flag 1, at the second stored
\* boundary the offset is the standard one and the flag 0, and one second
\* before each it is the other way round; and so getTimeZoneDiff answers at
\* the two boundaries of whatever rule is stored.
C27_DaylightWindowIsHalfOpen ==
    [][(/\ last'.op \in {"android_tzoffset_in_seconds", "android_localtime"}
        /\ Instance.mAndroidTimeZoneInit = 1
        /\ ~SameInt(Instance.mDaylightOffset, 0)
        /\ YearOf(last'.t) = Instance.mCurrentYear) =>
          \E lo \in {Instance.mStandardDateUtc} : \E hi \in {Instance.mDaylightDateUtc} :
          \E first \in {TimeOf(lo.tm_year + 1900, lo.tm_mon + 1, lo.tm_mday,
                               lo.tm_hour, lo.tm_min, lo.tm_sec)} :
          \E second \in {TimeOf(hi.tm_year + 1900, hi.tm_mon + 1, hi.tm_mday,
                                hi.tm_hour, hi.tm_min, hi.tm_sec)} :
          \E std \in {Instance.mStandardOffset} :
          \E dst \in {Instance.mStandardOffset + Instance.mDaylightOffset} :
            /\ ~last'.threw /\ last'.resolves = 0
            /\ first < second
            /\ getTimeZoneDiff(Instance, first - 1) = std
            /\ getTimeZoneDiff(Instance, first) = dst
            /\ getTimeZoneDiff(Instance, second - 1) = dst
            /\ getTimeZoneDiff(Instance, second) = std
            /\ getIsDaylightSavingTime(Instance, first) = 1
            /\ getIsDaylightSavingTime(Instance, second) = 0
            /\ last'.op = "android_tzoffset_in_seconds" =>
                 /\ last'.t \in {first, second - 1} => last'.ret = dst
                 /\ last'.t \in {first - 1, second} => last'.ret = std
            /\ last'.op = "android_localtime" =>
                 /\ last'.t \in {first, second - 1} =>
                       last'.ret = WithIsDst(gmtime(last'.t + dst), 1)
                 /\ last'.t \in {first - 1, second} =>
                       last'.ret = WithIsDst(gmtime(last'.t + std), 0)]_vars

\* New York resolved by zdump, asked for the offset at the very instant its
\* daylight saving ends: -18000
C27_Witness ==
    /\ last.op = "android_tzoffset_in_seconds"
    /\ last.pre.init = 1 /\ last.resolves = 0 /\ ~last.threw
    /\ mTimeZoneName = NewYork
    /\ SameInt(mDaylightOffset, 3600)
    /\ gmtime(last.t) = mDaylightDateUtc
    /\ last.ret = -18000


----------------------------------------------------------------------------
(* Claims about the discovery of the linux build, under SpecHost *)

\* C28: a first discovery of the linux build that has no valid TZ, a readable
\* zoneinfo root and a readable local-time file: when that file is a symbolic
\* link whose text is the root, a slash and a name the validator accepts, the
\* name is returned and neither stat nor the scan is called; in every other
\* case the file is stat'ed and what the scan of the root returns is returned.
C28_LinkIntoRootIsTakenWithoutScan ==
    (/\ last.op = "bufprint_zoneinfo_timezone" /\ platform = "linux"
     /\ last.pre.android_timezone_init = 0
     /\ last.host.TZ = NULL \/ check_timezone_is_zoneinfo(last.host.TZ) = 0) =>
        \E fs \in {last.host.fs} :
        \E root \in {StripSlash(IF last.host.TZDIR = NULL THEN ZONEINFO_DIR
                                ELSE last.host.TZDIR)} :
        \E file \in {IF access_R_OK(fs, LOCALTIME_FILE1) THEN LOCALTIME_FILE1
                     ELSE root \o <<"/", "l", "o", "c", "a", "l", "t", "i", "m", "e">>} :
          (access_R_OK(fs, root) /\ access_R_OK(fs, file)) =>
            \E target \in {readlink(fs, file)} :
              IF /\ target # NULL
                 /\ Len(target) > Len(root) + 1
                 /\ SubSeq(target, 1, Len(root) + 1) = root \o <<"/">>
                 /\ check_timezone_is_zoneinfo(SubSeq(target, Len(root) + 2, Len(target))) = 1
              THEN /\ last.ret = SubSeq(target, Len(root) + 2, Len(target))
                   /\ \A i \in DOMAIN last.calls :
                         last.calls[i] \notin {"stat", "scan_timezone_dir"}
                   /\ last.calls[Len(last.calls)] = "readlink"
              ELSE /\ Len(last.calls) >= 2
                   /\ SubSeq(last.calls, Len(last.calls) - 1, Len(last.calls))
                         = <<"stat", "scan_timezone_dir">>
                   /\ last.ret = scan_timezone_dir(fs, ScanData(fs, file, root), root, 0)

\* /etc/localtime is a link to /usr/share/zoneinfo/Europe/Berlin on a host
\* whose TZ is not a zone name: Europe/Berlin is returned after the readlink
C28_Witness ==
    /\ last.op = "bufprint_zoneinfo_timezone" /\ platform = "linux"
    /\ last.pre.android_timezone_init = 0
    /\ last.host.TZ = <<"U", "T", "C">>
    /\ last.host.TZDIR = NULL
    /\ readlink(last.host.fs, LOCALTIME_FILE1) = ZONEINFO_DIR \o Berlin
    /\ last.ret = Berlin
    /\ last.calls = <<"access", "access", "readlink">>


\* C29: a discovery of the linux build that scans returns the name of the
\* first file, in the order readdir gives the entries of the root and of each
\* directory walked into, among the regular files found one or two directories
\* below the root by way of directories that are neither links nor hidden,
\* that is not hidden itself, whose name below the root the validator accepts
\* and whose bytes are those of the local-time file; NULL if there is none.
\* A file is <<i, j>> or <<i, j, k>>: its entry number in each directory.
C29_ScanReturnsFirstMatchInWalkOrder ==
    (/\ last.op = "bufprint_zoneinfo_timezone" /\ platform = "linux"
     /\ last.calls # <<>>
     /\ last.calls[Len(last.calls)] = "scan_timezone_dir") =>
        \E fs \in {last.host.fs} :
        \E root \in {StripSlash(IF last.host.TZDIR = NULL THEN ZONEINFO_DIR
                                ELSE last.host.TZDIR)} :
        \E file \in {IF access_R_OK(fs, LOCALTIME_FILE1) THEN LOCALTIME_FILE1
                     ELSE root \o <<"/", "l", "o", "c", "a", "l", "t", "i", "m", "e">>} :
          LET sub(dir, i) == dir \o <<"/">> \o fs[dir].entries[i]
              walked(dir, kind) ==
                  {i \in DOMAIN fs[dir].entries :
                      /\ fs[dir].entries[i][1] # "."
                      /\ sub(dir, i) \in DOMAIN fs
                      /\ fs[sub(dir, i)].kind = kind
                      /\ kind = "dir" => fs[sub(dir, i)].readable}
              files ==
                  UNION {{<<i, j>> : j \in walked(sub(root, i), "reg")}
                         \cup UNION {{<<i, j, k>> : k \in walked(sub(sub(root, i), j), "reg")}
                                     : j \in walked(sub(root, i), "dir")}
                         : i \in walked(root, "dir")}
              pathOf(c) == IF Len(c) = 2 THEN sub(sub(root, c[1]), c[2])
                           ELSE sub(sub(sub(root, c[1]), c[2]), c[3])
              nameOf(c) == SubSeq(pathOf(c), Len(root) + 2, Len(pathOf(c)))
              matching ==
                  {c \in files :
                      /\ check_timezone_is_zoneinfo(nameOf(c)) = 1
                      /\ fs[pathOf(c)].readable
                      /\ fs[pathOf(c)].data = Contents(fs, file)}
              before(a, b) ==
                  \/ a[1] < b[1]
                  \/ a[1] = b[1] /\ a[2] < b[2]
                  \/ a[1] = b[1] /\ a[2] = b[2] /\ Len(a) = 3 /\ Len(b) = 3 /\ a[3] < b[3]
          IN IF matching = {} THEN last.ret = NULL
             ELSE \E c \in matching :
                     /\ \A o \in matching \ {c} : before(c, o)
                     /\ last.ret = nameOf(c)

\* the local-time file has the bytes of America/Indiana/Knox, two directories
\* down, and of the link America/Knox_IN that readdir gives first
C29_Witness ==
    /\ last.op = "bufprint_zoneinfo_timezone" /\ platform = "linux"
    /\ last.calls # <<>>
    /\ last.calls[Len(last.calls)] = "scan_timezone_dir"
    /\ last.host.TZDIR = NULL
    /\ Contents(last.host.fs, LOCALTIME_FILE1) = <<1, 1>>
    /\ lstat(last.host.fs, ZONEINFO_DIR \o <<"A", "m", "e", "r", "i", "c", "a", "/", "K", "n", "o", "x", "_", "I", "N">>).kind = "lnk"
    /\ last.ret = <<"A", "m", "e", "r", "i", "c", "a", "/", "I", "n", "d", "i", "a", "n", "a", "/", "K", "n", "o", "x">>


\* C30: android_localtime, answered for an instant of the resolved year by an
\* engine that zdump resolved with a daylight offset, returns the flag 1 when
\* the zone is in daylight time at the instant (zdump's isdst=1) and the flag
\* 0 when it is not, whichever of the two the zone's year begins in.
C30_FlagIsTheZonesDaylightTime ==
    (/\ last.op = "android_localtime" /\ ~last.threw
     /\ last.pre.init = 1 /\ last.resolves = 0
     /\ mAndroidTimeZoneInit = 1
     /\ ~SameInt(mDaylightOffset, 0)
     /\ YearOf(last.t) = mCurrentYear) =>
        last.ret.tm_isdst = IF ZoneIsDstAt(mTimeZoneName, last.t) THEN 1 ELSE 0


----------------------------------------------------------------------------
(* Claims about the engine and the statics over whole runs, under Spec *)

\* C31: a query that finds the engine in HostFallback, whatever the year of
\* its instant, runs no command, calls androidTimeZoneSet not at all, leaves
\* the engine in HostFallback with the year and the name it had, and answers
\* with the host's conversion; a timezone_set whose resolution fails without
\* an exception leaves the engine in HostFallback; and a call that finds the
\* engine in HostFallback and leaves it Resolved is a timezone_set returning 0.
C31_HostFallbackUntilSuccessfulSet ==
    /\ (/\ last.op \in {"android_tzoffset_in_seconds", "android_localtime"}
        /\ last.pre.init = 0) =>
          /\ last.resolves = 0 /\ last.cmds = <<>> /\ ~last.threw
          /\ mAndroidTimeZoneInit = 0
          /\ mCurrentYear = last.pre.year /\ mTimeZoneName = last.pre.name
          /\ last.op = "android_tzoffset_in_seconds" =>
                last.ret = ZoneOffsetAt(HostZone, last.t)
          /\ last.op = "android_localtime" =>
                last.ret = WithIsDst(gmtime(last.t + ZoneOffsetAt(HostZone, last.t)),
                                     IF ZoneIsDstAt(HostZone, last.t) THEN 1 ELSE 0)
    /\ (last.op = "timezone_set" /\ last.resolves = 1 /\ ~last.threw /\ last.ret # 0) =>
          mAndroidTimeZoneInit = 0
    /\ (last.op # "none" /\ last.pre.init = 0 /\ constructed
            /\ ~SameInt(mAndroidTimeZoneInit, 0)) =>
          last.op = "timezone_set" /\ last.ret = 0 /\ last.resolves = 1

\* New York was given to timezone_set and did not resolve; a query for an
\* instant of another year than the engine's is repeated and both times
\* answered by the host, with no resolution tried
C31_Witness ==
    /\ last.op = "android_tzoffset_in_seconds"
    /\ last.again
    /\ last.pre.init = 0 /\ last.pre.name = NewYork
    /\ last.before.pre.init = 0
    /\ YearOf(last.t) # last.pre.year
    /\ last.resolves = 0 /\ last.before.resolves = 0
    /\ last.ret = ZoneOffsetAt(HostZone, last.t)
    /\ mAndroidTimeZoneInit = 0


\* C32: in every state in which the engine is Resolved, the two offsets, and
\* with a daylight offset the two boundaries, are what a successful call of
\* androidTimeZoneSet stores for the stored name and the stored year; the
\* last call, if it resolved, ran its commands for that name and that year
\* and, being a timezone_set, returned 0; if it did not resolve, it found
\* the engine Resolved with that name and that year.
C32_RuleIsOfStoredNameAndYear ==
    (constructed /\ SameInt(mAndroidTimeZoneInit, 1)) =>
        /\ mTimeZoneName \in ValidNames /\ mCurrentYear \in Years
        /\ \E now \in ClockTimes, zmode \in ZdumpModes, dmode \in DateModes :
             \E r \in {androidTimeZoneSetTable[mTimeZoneName, mCurrentYear, now, zmode, dmode]} :
                /\ ~r.threw /\ r.ret = 0
                /\ r.self.mStandardOffset = mStandardOffset
                /\ r.self.mDaylightOffset = mDaylightOffset
                /\ mDaylightOffset # 0 =>
                      /\ r.self.mStandardDateUtc = mStandardDateUtc
                      /\ r.self.mDaylightDateUtc = mDaylightDateUtc
        /\ (last.op # "none" /\ last.resolves = 1) =>
              /\ ~last.threw
              /\ last.cmds[1] = [util |-> "zdump", zone |-> mTimeZoneName,
                                 year |-> mCurrentYear]
              /\ \A i \in DOMAIN last.cmds : last.cmds[i].zone = mTimeZoneName
              /\ last.op = "timezone_set" => last.name = mTimeZoneName /\ last.ret = 0
              /\ last.op # "timezone_set" => YearOf(last.t) = mCurrentYear
        /\ (last.op # "none" /\ last.resolves = 0) =>
              /\ last.pre.init = 1
              /\ last.pre.name = mTimeZoneName
              /\ last.pre.year = mCurrentYear

\* a query for an instant of the next year found New York resolved for 2024
\* and left it resolved, by zdump, for 2025
C32_Witness ==
    /\ constructed /\ SameInt(mAndroidTimeZoneInit, 1)
    /\ last.op = "android_localtime"
    /\ last.pre.init = 1 /\ last.pre.year = 2024
    /\ last.resolves = 1 /\ Len(last.cmds) = 1
    /\ mTimeZoneName = NewYork
    /\ mCurrentYear = 2025
    /\ SameInt(mDaylightOffset, 3600)
    /\ SameInt(mStandardDateUtc.tm_year, 125)


(***************************************************************************)
(* Claims about what bufprint_zoneinfo_timezone prints between calls of    *)
(* timezone_set, under SpecReport                                          *)
(***************************************************************************)

\* C33: after timezone_set(n) returned success, every call of
\* bufprint_zoneinfo_timezone before the next timezone_set prints exactly n and
\* runs no discovery: it finds android_timezone_init set, makes no system
\* call and leaves the three statics as they were.
C33_SetNameIsPrintedUntilNextSet ==
    (last.op = "bufprint_zoneinfo_timezone" /\ last.set.name # NULL /\ last.set.ret = 0) =>
        /\ last.text = last.set.name
        /\ last.ret = last.set.name
        /\ last.calls = <<>>
        /\ last.pre.android_timezone_init = 1
        /\ last.pre = [android_timezone0 |-> android_timezone0,
                       android_timezone |-> android_timezone,
                       android_timezone_init |-> android_timezone_init]

\* the second print after timezone_set("America/New_York") succeeded on a
\* host whose discovery yields another zone
C33_Witness ==
    /\ last.op = "bufprint_zoneinfo_timezone"
    /\ last.n = 3
    /\ last.set = [name |-> NewYork, ret |-> 0]
    /\ last.prev = NewYork
    /\ last.text = NewYork
    /\ get_zoneinfo_timezone(last.host,
           [android_timezone0 |-> NULL, android_timezone |-> NULL,
            android_timezone_init |-> 0]).ret = Berlin


\* C34: between two consecutive calls of timezone_set, on one host, all
\* calls of bufprint_zoneinfo_timezone print the same text; and after a
\* timezone_set(n) that failed at resolution, n is printed only on a host
\* whose own discovery yields n.
C34_PrintsAgreeBetweenSets ==
    last.op = "bufprint_zoneinfo_timezone" =>
        /\ last.prev # NULL => last.text = last.prev
        /\ (last.set.name # NULL /\ last.set.ret # 0
              /\ check_timezone_is_zoneinfo(last.set.name) = 1
              /\ last.text = last.set.name) =>
                 get_zoneinfo_timezone(last.host,
                     [android_timezone0 |-> NULL, android_timezone |-> NULL,
                      android_timezone_init |-> 0]).ret = last.set.name


\* C35: whenever the engine is Resolved, the zone name printed by
\* bufprint_zoneinfo_timezone is the name of the zone whose rule the engine
\* applies, after any sequence of timezone_set calls.
C35_PrintedZoneIsAppliedZone ==
    (last.op = "bufprint_zoneinfo_timezone" /\ constructed
        /\ SameInt(mAndroidTimeZoneInit, 1)) =>
        last.text = mTimeZoneName


\* C36: on every build and after any calls, the text printed by
\* bufprint_zoneinfo_timezone is either "Unknown/Unknown" or the name that
\* discovery or timezone_set left in the statics, and then it passes the
\* validator; a name that does not pass it is never printed.
C36_PrintedTextIsValidOrUnknown ==
    last.op = "bufprint_zoneinfo_timezone" =>
        /\ \/ last.text = <<"U", "n", "k", "n", "o", "w", "n", "/", "U", "n", "k", "n", "o", "w", "n">>
           \/ /\ check_timezone_is_zoneinfo(last.text) = 1
              /\ last.text = last.ret
              /\ last.text = PointedTo([android_timezone0 |-> android_timezone0,
                                        android_timezone |-> android_timezone,
                                        android_timezone_init |-> android_timezone_init])
        /\ (last.ret = NULL \/ check_timezone_is_zoneinfo(last.ret) = 0) =>
               last.text = <<"U", "n", "k", "n", "o", "w", "n", "/", "U", "n", "k", "n", "o", "w", "n">>
        /\ check_timezone_is_zoneinfo(last.text) = 1

\* the apple build with TZ=UTC: discovery returns "UTC", which fails the
\* validator, and the text is "Unknown/Unknown"
C36_Witness ==
    /\ last.op = "bufprint_zoneinfo_timezone"
    /\ platform = "apple"
    /\ last.ret = <<"U", "T", "C">>
    /\ last.text = <<"U", "n", "k", "n", "o", "w", "n", "/", "U", "n", "k", "n", "o", "w", "n">>


(***************************************************************************)
(* Claims about the registry strategy, under SpecHost                      *)
(***************************************************************************)

C39_UtcCompareIsLexicographic ==
    last.op = "utcCompare" =>
        \E a \in {gmtime(last.u + last.d)} : \E b \in {gmtime(last.u)} :
        \E fields \in {<<"tm_year", "tm_mon", "tm_mday", "tm_hour", "tm_min", "tm_sec">>} :
        \E differ \in {{i \in 1 .. 6 : a[fields[i]] # b[fields[i]]}} :
            /\ last.ret = utcCompare(a, b)
            /\ last.ret = IF differ = {} THEN 0
                          ELSE Let(fields[CHOOSE i \in differ : \A j \in differ : i <= j],
                                   LAMBDA first : IF a[first] > b[first] THEN 1 ELSE -1)
            /\ last.ret = 0 <=> a = b
            /\ utcCompare(b, a) = -last.ret
            /\ utcCompare(a, a) = 0
            /\ \A e \in {-(kSecondsPerDay - 1), -3600, -60, -1, 0, 1, 60, 3600,
                         kSecondsPerDay - 1} :
                 \E c \in {gmtime(last.u + e)} :
                    /\ (utcCompare(a, b) < 0 /\ utcCompare(b, c) < 0) => utcCompare(a, c) < 0
                    /\ (utcCompare(c, a) < 0 /\ utcCompare(a, b) < 0) => utcCompare(c, b) < 0
                    /\ (utcCompare(a, b) = 0 /\ utcCompare(b, c) = 0) => utcCompare(a, c) = 0
                    /\ (utcCompare(a, b) <= 0 /\ utcCompare(b, c) <= 0) => utcCompare(a, c) <= 0
            /\ \A i, j \in {-1, 0, 1} :
                 utcCompare(WithIsDst(a, i), WithIsDst(b, j)) = last.ret

\* two dates one second apart on either side of the new year: the year
\* decides although every other field of the earlier date is larger
C39_Witness ==
    /\ last.op = "utcCompare"
    /\ last.d = -1
    /\ last.ret = -1
    /\ gmtime(last.u).tm_year = gmtime(last.u + last.d).tm_year + 1
    /\ gmtime(last.u).tm_sec < gmtime(last.u + last.d).tm_sec


----------------------------------------------------------------------------
(***************************************************************************)
(* class UIEventRecorder (ui-event-recorder.h): one recorder, constructed  *)
(* with an empty container, and the calls the capturer and the owner make  *)
(* on it.  The record of the last call keeps the number of stop() calls    *)
(* made so far (stops, counted up to 2) and the container the call found.  *)
(***************************************************************************)

\* the container is filled up to MaxEvents strings
MaxEvents == 3

\* UIEventRecorder::mEventTypes
mEventTypes == {"Close", "Enter", "Leave", "FocusIn", "FocusOut", "Hide",
                "MouseButtonPress", "MouseButtonRelease", "Resize"}

InitRecorder ==
    /\ InitProcess
    /\ platform = "linux"
    /\ last = [op |-> "none", stops |-> 0, ret |-> FALSE, before |-> <<>>]

\* a stop() that turns recording on again when it was off
stop_toggling ==
    /\ mRecording' = ~mRecording
    /\ last' = [op |-> "stop", stops |-> IF last.stops < 2 THEN last.stops + 1 ELSE 2,
                ret |-> FALSE, before |-> mContainer]
    /\ UNCHANGED <<mContainer, engineVars, staticVars, envVars, threadVars>>

\* void stop()
stop ==
    /\ mRecording' = FALSE
    /\ last' = [op |-> "stop", stops |-> IF last.stops < 2 THEN last.stops + 1 ELSE 2,
                ret |-> FALSE, before |-> mContainer]
    /\ UNCHANGED <<mContainer, engineVars, staticVars, envVars, threadVars>>

\* bool objectPredicate(const QObject*) const, asked about an object
objectPredicate(object) ==
    /\ last' = [op |-> "objectPredicate", stops |-> last.stops,
                ret |-> mRecording, before |-> mContainer]
    /\ UNCHANGED <<mRecording, mContainer, engineVars, staticVars, envVars, threadVars>>

\* void processEvent(const QObject* target, const QEvent* event): the record
\* of the target's name and the event, serialised, is pushed to the back
processEvent(target, event) ==
    /\ Len(mContainer) < MaxEvents
    /\ mContainer' = Append(mContainer, <<target, event>>)
    /\ last' = [op |-> "processEvent", stops |-> last.stops,
                ret |-> FALSE, before |-> mContainer]
    /\ UNCHANGED <<mRecording, engineVars, staticVars, envVars, threadVars>>

SpecRecorder ==
    InitRecorder /\ [][\/ stop
                      \/ \E object \in {"button", "window"} : objectPredicate(object)
                      \/ \E target \in {"button", "window"} :
                           \E event \in {e \in mEventTypes :
                                            e \in {"Close", "MouseButtonPress", "Resize"}} :
                              processEvent(target, event)]_vars

\* C38: the recorder accepts every object from construction until stop() is
\* called and rejects every object in every state after the first stop(),
\* whatever is called in between; a second stop() changes nothing.
C38_RecordsUntilFirstStop ==
    /\ mRecording = (last.stops = 0)
    /\ last.op = "objectPredicate" => last.ret = (last.stops = 0)
    /\ last.op = "stop" => /\ ~mRecording
                           /\ mContainer = last.before

\* an object is rejected after two calls of stop() and an event delivered
\* since
C38_Witness ==
    /\ last.op = "objectPredicate"
    /\ last.stops = 2
    /\ last.ret = FALSE
    /\ mContainer # <<>>

====
